---- MODULE Spec2Model ----
(***************************************************************************)
(* A model of the political-news subsystem of Videmy-study/backend:        *)
(*   - the multi-source article aggregator (news_scraper.py), and          *)
(*   - the bias / credibility analyzer (bias_analyzer.py).                 *)
(*                                                                         *)
(* Representation of Python values.                                        *)
(*   Text strings (titles, descriptions, contents, category labels and     *)
(*   the phrase vocabularies) are held as the list s.split(" "): a         *)
(*   non-empty sequence of space-free words, the empty string being        *)
(*   <<"">>.  String concatenation with a single blank between the parts   *)
(*   is then sequence concatenation, and nothing of the string is lost.    *)
(*   Name strings (source names, timestamps) are sequences of characters.  *)
(*   A Python float is the exact rational [n |-> numerator, d |-> denom].  *)
(*   A JSON / Python value that may be absent, null, a string or an object *)
(*   is a record [py |-> kind, v |-> payload].                             *)
(***************************************************************************)
EXTENDS Integers, Sequences, FiniteSets, TLC

VARIABLES
    \* ---- aggregator (scrape_political_news) ----
    keys,       \* NewsAPIClient.*_key: which API keys the environment holds
    request,    \* the topic argument
    hours,      \* the hours argument
    pc,         \* position inside scrape_political_news
    status,     \* per source: what the HTTP exchange did
    raw,        \* per source: the entries of the decoded response body
    fetched,    \* per source: the list the fetch method returned
    result,     \* the record scrape_political_news returned
    \* ---- analyzer, one article (BiasAnalyzer.analyze_article_bias) ----
    article,    \* the article dict handed to the analyzer
    analysis,   \* the record it returned
    \* ---- analyzer, a batch (analyze_news_bias) ----
    articles,   \* the batch handed to analyze_news_bias
    report,     \* the report it returned
    \* ---- credibility lookup alone ----
    srcname,    \* the source name handed to _assess_source_credibility
    cred,       \* the record it returned
    \* ---- category lookup alone ----
    given_score, \* the score handed to _categorize_bias
    given_label, \* the label it returned
    \* ---- language scores alone ----
    probe_text,      \* the text handed to the two _detect_*_language methods
    emotional_level, \* what _detect_emotional_language returned
    partisan_level,  \* what _detect_partisan_language returned
    \* ---- repeated analyses of one article ----
    subject,      \* the article dict analysed again and again
    subject_side, \* on which side of a halfway score its float falls
    runs,         \* the records the analyses of subject returned, in order
    class_attrs,  \* BiasAnalyzer.BIASED_TERMS and .CREDIBLE_SOURCES as held
    \* ---- SessionManager ----
    sessions,              \* self.sessions: session id -> ChatSession
    conversations,         \* self.conversations: session id -> ChatMessage list
    session_timeout_hours, \* self.session_timeout_hours
    wall_clock,            \* the reading of datetime.now(), in hours
    ids_issued,            \* how many session ids uuid4 has produced
    msgs_issued,           \* how many message ids uuid4 has produced
    sm_call,               \* the last SessionManager call and what it gave
    \* ---- InstagramManager ----
    clients,  \* self.clients: the usernames with a cached Client
    accounts, \* the InstagramAccount documents of the database, by username
    ig_call   \* the last InstagramManager call and what it gave

scrapeVars == <<keys, request, hours, pc, status, raw, fetched, result>>
articleVars == <<article, analysis>>
batchVars == <<articles, report>>
credVars == <<srcname, cred>>
categoryVars == <<given_score, given_label>>
probeVars == <<probe_text, emotional_level, partisan_level>>
repeatVars == <<subject, subject_side, runs, class_attrs>>
sessionVars == <<sessions, conversations, session_timeout_hours, wall_clock,
                 ids_issued, msgs_issued, sm_call>>
instagramVars == <<clients, accounts, ig_call>>
managerVars == <<sessionVars, instagramVars>>
vars == <<keys, request, hours, pc, status, raw, fetched, result,
          article, analysis, articles, report, srcname, cred,
          given_score, given_label,
          probe_text, emotional_level, partisan_level,
          subject, subject_side, runs, class_attrs,
          sessions, conversations, session_timeout_hours, wall_clock,
          ids_issued, msgs_issued, sm_call,
          clients, accounts, ig_call>>

(***************************************************************************)
(* Bounds of the model.                                                    *)
(***************************************************************************)
\* raw entries delivered by the three responses of one scrape, in total
MaxFetched == 2
\* words of an analysed article's title
MaxTitleWords == 2
\* articles in a batch handed to analyze_news_bias
MaxBatch == 3

(***************************************************************************)
(* Generic helpers.                                                        *)
(***************************************************************************)
Min(a, b) == IF a <= b THEN a ELSE b
Max(a, b) == IF a >= b THEN a ELSE b

RECURSIVE Flatten(_)
\* the concatenation of a sequence of sequences
Flatten(ss) == IF ss = <<>> THEN <<>> ELSE Head(ss) \o Flatten(Tail(ss))

\* all sequences over S of length at most n
SeqsUpTo(S, n) == UNION {[1..k -> S] : k \in 0..n}

(***************************************************************************)
(* Python strings.                                                         *)
(***************************************************************************)
\* the empty text string, "".split(" ")
EmptyText == <<"">>

\* str.lower on one character
LowerChar(c) ==
    CASE c = "A" -> "a" [] c = "B" -> "b" [] c = "C" -> "c" [] c = "D" -> "d"
      [] c = "E" -> "e" [] c = "F" -> "f" [] c = "G" -> "g" [] c = "H" -> "h"
      [] c = "I" -> "i" [] c = "J" -> "j" [] c = "K" -> "k" [] c = "L" -> "l"
      [] c = "M" -> "m" [] c = "N" -> "n" [] c = "O" -> "o" [] c = "P" -> "p"
      [] c = "Q" -> "q" [] c = "R" -> "r" [] c = "S" -> "s" [] c = "T" -> "t"
      [] c = "U" -> "u" [] c = "V" -> "v" [] c = "W" -> "w" [] c = "X" -> "x"
      [] c = "Y" -> "y" [] c = "Z" -> "z" [] OTHER -> c

\* str.lower on a name string
LowerName(s) == [i \in DOMAIN s |-> LowerChar(s[i])]

\* str.lower on one word; the words with capitals are those of the
\* vocabularies and of the input pools below
LowerWord(w) ==
    CASE w = "MAGA" -> "maga" [] w = "America" -> "america"
      [] w = "Budget" -> "budget" [] w = "BUDGET" -> "budget"
      [] w = "Vote" -> "vote" [] w = "VOTE" -> "vote"
      [] w = "Tax" -> "tax" [] w = "Bill" -> "bill"
      [] w = "X" -> "x" [] w = "All" -> "all" [] w = "Shocking" -> "shocking"
      [] OTHER -> w

\* str.lower on a text string
LowerText(t) == [i \in DOMAIN t |-> LowerWord(t[i])]

\* Python's "part in whole" on two sequences of the same representation:
\* part occurs as a contiguous run of whole
Contains(whole, part) ==
    \E i \in 1..(Len(whole) - Len(part) + 1) :
        /\ whole[i] = part[1]
        /\ \A j \in 1..Len(part) : whole[i + j - 1] = part[j]

\* len(text.split()): the words of the text, blanks dropped
WordCount(t) == Cardinality({i \in DOMAIN t : t[i] # ""})

\* the code point of a character of the timestamp pool
CodePoint(c) ==
    CASE c = " " -> 32 [] c = "-" -> 45 [] c = "0" -> 48 [] c = "1" -> 49
      [] c = "2" -> 50 [] c = "3" -> 51 [] c = "4" -> 52 [] c = "5" -> 53
      [] c = "6" -> 54 [] c = "7" -> 55 [] c = "8" -> 56 [] c = "9" -> 57
      [] c = ":" -> 58 [] c = "M" -> 77 [] c = "T" -> 84 [] c = "Z" -> 90
      [] c = "a" -> 97 [] c = "y" -> 121 [] OTHER -> 0

RECURSIVE StrLess(_, _)
\* Python's a < b on two name strings: lexicographic by code point
StrLess(a, b) ==
    IF b = <<>> THEN FALSE
    ELSE IF a = <<>> THEN TRUE
    ELSE IF CodePoint(Head(a)) # CodePoint(Head(b))
         THEN CodePoint(Head(a)) < CodePoint(Head(b))
    ELSE StrLess(Tail(a), Tail(b))

(***************************************************************************)
(* Python / JSON values.                                                   *)
(***************************************************************************)
PyNone == [py |-> "None", v |-> <<>>]
PyStr(s) == [py |-> "str", v |-> s]
\* a JSON object with a "name" member (the name string is the payload; the
\* empty payload also stands for the object without that member, which
\* .get("name", "") reads as "")
PyDict(name) == [py |-> "dict", v |-> name]
\* a key the JSON object does not have
Missing == [py |-> "missing", v |-> <<>>]

\* dict.get(key, default) on the value stored under the key
Get(stored, default) == IF stored.py = "missing" THEN default ELSE stored

(***************************************************************************)
(* The aggregator: news_scraper.py.                                        *)
(***************************************************************************)
Apis == <<"NewsAPI", "GNews", "MediaStack">>
ApiSet == {Apis[i] : i \in DOMAIN Apis}

\* what one HTTP exchange can do: requests.get raises (timeout, connection
\* error), the server answers 429, another non-200 code, 200 with a body
\* response.json() cannot decode, or 200 with a decoded body.  In status,
\* "no_key" says the method returned before any exchange and
\* "not_requested" that it has not been called
Exchanges == {"timeout", "429", "500", "bad_json", "200"}

Reuters == <<"R","e","u","t","e","r","s">>
Day1 == <<"2","0","2","4","-","0","5","-","0","1">>
Day2 == <<"2","0","2","4","-","0","5","-","0","2">>

\* one element of the response's article array, as the API shapes it:
\* NewsAPI and GNews nest the source name in an object, MediaStack gives
\* it as a string
RawArticle(api, title, published, source) ==
    [isdict |-> TRUE, title |-> title, description |-> PyStr(<<"text">>),
     content |-> IF api = "MediaStack" THEN Missing ELSE PyStr(<<"body">>),
     url |-> PyStr(<<"u">>), source |-> source, published |-> published]

SourceOf(api) ==
    IF api = "MediaStack" THEN PyStr(Reuters) ELSE PyDict(Reuters)

\* an element that is not a JSON object (a string, a number, null)
NotAnObject ==
    [isdict |-> FALSE, title |-> Missing, description |-> Missing,
     content |-> Missing, url |-> Missing, source |-> Missing,
     published |-> Missing]

\* the raw elements a response is built from
RawEntries(api) ==
    { RawArticle(api, PyStr(<<"Budget", "Vote">>), PyStr(Day2), SourceOf(api)),
      RawArticle(api, PyStr(<<"budget", "vote">>), PyStr(Day1), SourceOf(api)),
      RawArticle(api, PyStr(<<"Tax", "Bill">>), PyStr(Day1), SourceOf(api)),
      RawArticle(api, PyNone, PyStr(Day2), SourceOf(api)),
      RawArticle(api, PyStr(<<"Tax", "Bill">>), PyNone, SourceOf(api)),
      RawArticle(api, Missing, Missing, SourceOf(api)),
      RawArticle(api, PyStr(<<"Tax", "Bill">>), PyStr(Day2), PyNone),
      NotAnObject }

\* the dict literal appended inside the per-article try of
\* get_newsapi_articles / get_gnews_articles, or the exception it raises
NestedArticle(e, tag) ==
    IF ~e.isdict THEN [err |-> "AttributeError", art |-> <<>>]
    ELSE LET src == Get(e.source, PyDict(<<>>)) IN
         IF src.py # "dict" THEN [err |-> "AttributeError", art |-> <<>>]
         ELSE [err |-> "none",
               art |-> [title |-> Get(e.title, PyStr(EmptyText)),
                        description |-> Get(e.description, PyStr(EmptyText)),
                        content |-> Get(e.content, PyStr(EmptyText)),
                        url |-> Get(e.url, PyStr(<<>>)),
                        source |-> PyStr(src.v),
                        publishedAt |-> Get(e.published, PyStr(<<>>)),
                        api_source |-> tag]]

\* the dict literal appended inside the per-article try of
\* get_mediastack_articles, or the exception it raises
FlatArticle(e) ==
    IF ~e.isdict THEN [err |-> "AttributeError", art |-> <<>>]
    ELSE [err |-> "none",
          art |-> [title |-> Get(e.title, PyStr(EmptyText)),
                   description |-> Get(e.description, PyStr(EmptyText)),
                   content |-> PyStr(EmptyText),
                   url |-> Get(e.url, PyStr(<<>>)),
                   source |-> Get(e.source, PyStr(<<>>)),
                   publishedAt |-> Get(e.published, PyStr(<<>>)),
                   api_source |-> "MediaStack"]]

\* the exceptions the per-article "except (ValueError, KeyError)" catches
SkippedErrors == {"ValueError", "KeyError"}

RECURSIVE ProcessArticles(_, _, _)
\* the "for article in articles" loop of a fetch method: the processed
\* list, or the exception that leaves the loop
ProcessArticles(api, entries, processed) ==
    IF entries = <<>> THEN [raised |-> "none", out |-> processed]
    ELSE LET r == IF api = "MediaStack" THEN FlatArticle(Head(entries))
                  ELSE NestedArticle(Head(entries), api) IN
         IF r.err = "none"
         THEN ProcessArticles(api, Tail(entries), Append(processed, r.art))
         ELSE IF r.err \in SkippedErrors
         THEN ProcessArticles(api, Tail(entries), processed)
         ELSE [raised |-> r.err, out |-> processed]

\* the body shared by the three fetch methods after the key check
FetchWithKey(api, exchange, body) ==
    IF exchange \in {"timeout", "bad_json"} THEN <<>>   \* except Exception
    ELSE IF exchange = "429" THEN <<>>
    ELSE IF exchange # "200" THEN <<>>
    ELSE LET r == ProcessArticles(api, body, <<>>) IN
         IF r.raised # "none" THEN <<>>                  \* except Exception
         ELSE r.out

get_newsapi_articles(key, exchange, body) ==
    IF ~key THEN <<>> ELSE FetchWithKey("NewsAPI", exchange, body)

get_gnews_articles(key, exchange, body) ==
    IF ~key THEN <<>> ELSE FetchWithKey("GNews", exchange, body)

get_mediastack_articles(key, exchange, body) ==
    IF ~key THEN <<>> ELSE FetchWithKey("MediaStack", exchange, body)

RECURSIVE Deduplicate_RawTitle(_, _, _)
\* Deduplicate with the .lower() forgotten
Deduplicate_RawTitle(all, seen_titles, unique_articles) ==
    IF all = <<>> THEN [raised |-> "none", out |-> unique_articles]
    ELSE LET a == Head(all) IN
         IF a.title.py # "str"
         THEN [raised |-> "AttributeError", out |-> unique_articles]
         ELSE IF a.title.v \notin seen_titles
              THEN Deduplicate_RawTitle(Tail(all), seen_titles \cup {a.title.v},
                                        Append(unique_articles, a))
              ELSE Deduplicate_RawTitle(Tail(all), seen_titles, unique_articles)

RECURSIVE Deduplicate(_, _, _)
\* the "for article in all_articles" loop of scrape_political_news
Deduplicate(all, seen_titles, unique_articles) ==
    IF all = <<>> THEN [raised |-> "none", out |-> unique_articles]
    ELSE LET a == Head(all) IN
         IF a.title.py # "str"
         THEN [raised |-> "AttributeError", out |-> unique_articles]
         ELSE LET title_lower == LowerText(a.title.v) IN
              IF title_lower \notin seen_titles
              THEN Deduplicate(Tail(all), seen_titles \cup {title_lower},
                               Append(unique_articles, a))
              ELSE Deduplicate(Tail(all), seen_titles, unique_articles)

\* InsertDescending placing a before the elements equal to it
InsertDescending_BeforeEquals(sorted, a) ==
    LET notGreater == {i \in DOMAIN sorted :
                          ~StrLess(a.publishedAt.v, sorted[i].publishedAt.v)}
        at == IF notGreater = {} THEN Len(sorted) + 1
              ELSE CHOOSE i \in notGreater : \A j \in notGreater : i <= j
    IN SubSeq(sorted, 1, at - 1) \o <<a>> \o SubSeq(sorted, at, Len(sorted))

\* a placed into a list already in non-increasing publishedAt order, after
\* every element that is not smaller than it
InsertDescending(sorted, a) ==
    LET smaller == {i \in DOMAIN sorted :
                       StrLess(sorted[i].publishedAt.v, a.publishedAt.v)}
        at == IF smaller = {} THEN Len(sorted) + 1
              ELSE CHOOSE i \in smaller : \A j \in smaller : i <= j
    IN SubSeq(sorted, 1, at - 1) \o <<a>> \o SubSeq(sorted, at, Len(sorted))

RECURSIVE SortedDescending(_, _)
SortedDescending(todo, sorted) ==
    IF todo = <<>> THEN sorted
    ELSE SortedDescending(Tail(todo), InsertDescending(sorted, Head(todo)))

\* unique_articles.sort(key=lambda x: x["publishedAt"], reverse=True): a
\* stable sort; comparing None with anything raises TypeError, and a list
\* of two or more elements compares every key at least once
SortByPublishedAt(unique_articles) ==
    IF /\ Len(unique_articles) >= 2
       /\ \E i \in DOMAIN unique_articles :
              unique_articles[i].publishedAt.py # "str"
    THEN [raised |-> "TypeError", out |-> unique_articles]
    ELSE IF Len(unique_articles) < 2
    THEN [raised |-> "none", out |-> unique_articles]
    ELSE [raised |-> "none", out |-> SortedDescending(unique_articles, <<>>)]

Pending == [outcome |-> "pending", exc |-> "none", value |-> <<>>]

\* list(set(...)): the members of the set, each once, in the order the
\* set iterates; set_order is the order in which this run of the
\* interpreter iterates a set of tags
ListOfSet(members, set_order) == SelectSeq(set_order, LAMBDA tag : tag \in members)

\* the orders a set of the given tags can iterate in: string hashes differ
\* from one run of the interpreter to the next
SetOrders(tags) ==
    {o \in [1..Cardinality(tags) -> tags] : \A i, j \in DOMAIN o : i # j => o[i] # o[j]}

\* scrape_political_news listing in sources_used every source that
\* delivered an article
CombineArticles_SourcesOfFetched(req, newsapi_articles, gnews_articles, mediastack_articles, now, set_order) ==
    LET all_articles == newsapi_articles \o gnews_articles \o mediastack_articles
        d == Deduplicate(all_articles, {}, <<>>)
        s == SortByPublishedAt(d.out)
    IN IF d.raised # "none"
       THEN [outcome |-> "raised", exc |-> d.raised, value |-> <<>>]
       ELSE IF s.raised # "none"
       THEN [outcome |-> "raised", exc |-> s.raised, value |-> <<>>]
       ELSE [outcome |-> "returned", exc |-> "none",
             value |-> [topic |-> req,
                        time_range |-> "No time limit - all available articles",
                        total_articles |-> Len(s.out),
                        articles |-> s.out,
                        sources_used |->
                            ListOfSet({all_articles[i].api_source : i \in DOMAIN all_articles},
                                      set_order),
                        scraped_at |-> now]]

\* scrape_political_news giving up on every article as soon as one source
\* came back empty
CombineArticles_AllOrNothing(req, newsapi_articles, gnews_articles, mediastack_articles, now, set_order) ==
    LET complete == /\ newsapi_articles # <<>>
                    /\ gnews_articles # <<>>
                    /\ mediastack_articles # <<>>
        all_articles == IF complete
                        THEN newsapi_articles \o gnews_articles \o mediastack_articles
                        ELSE <<>>
        d == Deduplicate(all_articles, {}, <<>>)
        s == SortByPublishedAt(d.out)
    IN IF d.raised # "none"
       THEN [outcome |-> "raised", exc |-> d.raised, value |-> <<>>]
       ELSE IF s.raised # "none"
       THEN [outcome |-> "raised", exc |-> s.raised, value |-> <<>>]
       ELSE [outcome |-> "returned", exc |-> "none",
             value |-> [topic |-> req,
                        time_range |-> "No time limit - all available articles",
                        total_articles |-> Len(s.out),
                        articles |-> s.out,
                        sources_used |->
                            ListOfSet({s.out[i].api_source : i \in DOMAIN s.out},
                                      set_order),
                        scraped_at |-> now]]

\* scrape_political_news dropping, when hours is given, the articles
\* published before the last day of the pool
CombineArticles_WithinHours(req, newsapi_articles, gnews_articles, mediastack_articles, now, set_order) ==
    LET fetched_articles == newsapi_articles \o gnews_articles \o mediastack_articles
        all_articles == IF hours = "None" THEN fetched_articles
                        ELSE SelectSeq(fetched_articles,
                                       LAMBDA a : a.publishedAt.v = Day2)
        d == Deduplicate(all_articles, {}, <<>>)
        s == SortByPublishedAt(d.out)
    IN IF d.raised # "none"
       THEN [outcome |-> "raised", exc |-> d.raised, value |-> <<>>]
       ELSE IF s.raised # "none"
       THEN [outcome |-> "raised", exc |-> s.raised, value |-> <<>>]
       ELSE [outcome |-> "returned", exc |-> "none",
             value |-> [topic |-> req,
                        time_range |-> "No time limit - all available articles",
                        total_articles |-> Len(s.out),
                        articles |-> s.out,
                        sources_used |->
                            ListOfSet({s.out[i].api_source : i \in DOMAIN s.out},
                                      set_order),
                        scraped_at |-> now]]

\* scrape_political_news after the three fetches: combine, deduplicate,
\* sort and build the result record
CombineArticles(req, newsapi_articles, gnews_articles, mediastack_articles, now, set_order) ==
    LET all_articles == newsapi_articles \o gnews_articles \o mediastack_articles
        d == Deduplicate(all_articles, {}, <<>>)
        s == SortByPublishedAt(d.out)
    IN IF d.raised # "none"
       THEN [outcome |-> "raised", exc |-> d.raised, value |-> <<>>]
       ELSE IF s.raised # "none"
       THEN [outcome |-> "raised", exc |-> s.raised, value |-> <<>>]
       ELSE [outcome |-> "returned", exc |-> "none",
             value |-> [topic |-> req,
                        time_range |-> "No time limit - all available articles",
                        total_articles |-> Len(s.out),
                        articles |-> s.out,
                        sources_used |->
                            ListOfSet({s.out[i].api_source : i \in DOMAIN s.out},
                                      set_order),
                        scraped_at |-> now]]

(***************************************************************************)
(* Python floats as exact rationals.                                       *)
(***************************************************************************)
RECURSIVE Gcd(_, _)
Gcd(a, b) == IF b = 0 THEN a ELSE Gcd(b, a % b)

Abs(a) == IF a < 0 THEN -a ELSE a

\* the rational n/d (d > 0) in lowest terms
Rat(n, d) == LET g == Gcd(Abs(n), d) IN [n |-> n \div g, d |-> d \div g]

RAdd(x, y) == Rat(x.n * y.d + y.n * x.d, x.d * y.d)
RSub(x, y) == Rat(x.n * y.d - y.n * x.d, x.d * y.d)
RMul(x, y) == Rat(x.n * y.n, x.d * y.d)
RLess(x, y) == x.n * y.d < y.n * x.d
RLeq(x, y) == x.n * y.d <= y.n * x.d
RMin(x, y) == IF RLeq(x, y) THEN x ELSE y
RMax(x, y) == IF RLeq(y, x) THEN x ELSE y

\* round(x, 2) for x >= 0: the nearest multiple of 0.01.  When x lies
\* exactly halfway between two hundredths the float that stands for x lies
\* just below or just above it, and tie (0 or 1) says on which side
Round2(x, tie) ==
    LET num == 100 * x.n
        q == num \div x.d
        r == num % x.d
    IN IF 2 * r < x.d THEN Rat(q, 100)
       ELSE IF 2 * r > x.d THEN Rat(q + 1, 100)
       ELSE Rat(q + tie, 100)

(***************************************************************************)
(* The analyzer: bias_analyzer.py.                                         *)
(***************************************************************************)
\* BiasAnalyzer.BIASED_TERMS, each phrase as written in the source
BIASED_TERMS ==
  [left_wing |-> <<
      <<"progressive">>,
      <<"liberal","agenda">>,
      <<"socialist">>,
      <<"radical","left">>,
      <<"woke">>,
      <<"cancel","culture">>,
      <<"defund","the","police">>,
      <<"open","borders">> >>,
   right_wing |-> <<
      <<"conservative","agenda">>,
      <<"far-right">>,
      <<"alt-right">>,
      <<"MAGA">>,
      <<"America","first">>,
      <<"traditional","values">>,
      <<"pro-life">>,
      <<"gun","rights">> >>,
   emotional |-> <<
      <<"outrageous">>,
      <<"shocking">>,
      <<"devastating">>,
      <<"amazing">>,
      <<"incredible">>,
      <<"terrible">>,
      <<"wonderful">>,
      <<"horrible">>,
      <<"fantastic">>,
      <<"disgusting">> >>,
   partisan |-> <<
      <<"democrats","say">>,
      <<"republicans","claim">>,
      <<"liberals","argue">>,
      <<"conservatives","believe">>,
      <<"the","left">>,
      <<"the","right">>,
      <<"blue","state">>,
      <<"red","state">> >> ]
\* BiasAnalyzer.CREDIBLE_SOURCES
CREDIBLE_SOURCES ==
  [high |-> <<
      <<"r","e","u","t","e","r","s">>,
      <<"a","s","s","o","c","i","a","t","e","d"," ","p","r","e","s","s">>,
      <<"a","p">>,
      <<"b","b","c"," ","n","e","w","s">>,
      <<"n","p","r">>,
      <<"p","b","s">>,
      <<"c","-","s","p","a","n">>,
      <<"w","a","l","l"," ","s","t","r","e","e","t"," ","j","o","u","r","n","a","l">>,
      <<"n","e","w"," ","y","o","r","k"," ","t","i","m","e","s">>,
      <<"w","a","s","h","i","n","g","t","o","n"," ","p","o","s","t">>,
      <<"u","s","a"," ","t","o","d","a","y">>,
      <<"c","n","n">>,
      <<"f","o","x"," ","n","e","w","s">>,
      <<"m","s","n","b","c">>,
      <<"a","b","c"," ","n","e","w","s">>,
      <<"c","b","s"," ","n","e","w","s">>,
      <<"n","b","c"," ","n","e","w","s">>,
      <<"p","o","l","i","t","i","c","o">>,
      <<"r","o","l","l"," ","c","a","l","l">>,
      <<"t","h","e"," ","h","i","l","l">> >>,
   medium |-> <<
      <<"b","l","o","o","m","b","e","r","g">>,
      <<"f","o","r","b","e","s">>,
      <<"t","i","m","e">>,
      <<"n","e","w","s","w","e","e","k">>,
      <<"t","h","e"," ","a","t","l","a","n","t","i","c">>,
      <<"t","h","e"," ","n","e","w"," ","y","o","r","k","e","r">>,
      <<"n","a","t","i","o","n","a","l"," ","r","e","v","i","e","w">>,
      <<"t","h","e"," ","n","a","t","i","o","n">>,
      <<"m","o","t","h","e","r"," ","j","o","n","e","s">> >>,
   low |-> <<
      <<"b","r","e","i","t","b","a","r","t">>,
      <<"d","a","i","l","y"," ","c","a","l","l","e","r">>,
      <<"d","a","i","l","y"," ","b","e","a","s","t">>,
      <<"h","u","f","f","p","o","s","t">>,
      <<"v","o","x">>,
      <<"b","u","z","z","f","e","e","d"," ","n","e","w","s">>,
      <<"v","i","c","e"," ","n","e","w","s">>,
      <<"s","a","l","o","n">>,
      <<"a","l","t","e","r","n","e","t">> >> ]

\* the regular expressions of _detect_bias_indicators, each \b(a|b|...)\b as
\* the list of its alternatives
loaded_patterns ==
    << << <<"clearly">>, <<"obviously">>, <<"undoubtedly">>, <<"certainly">>, <<"definitely">> >>,
       << <<"always">>, <<"never">>, <<"everyone">>, <<"nobody">>, <<"all">>, <<"none">> >>,
       << <<"disaster">>, <<"catastrophe">>, <<"miracle">>, <<"revolutionary">>, <<"groundbreaking">> >> >>
factual_patterns ==
    << << <<"according","to">>, <<"data","shows">>, <<"study","finds">>, <<"research","indicates">> >>,
       << <<"statistics">>, <<"figures">>, <<"numbers">>, <<"percent">>, <<"percentage">> >>,
       << <<"official">>, <<"confirmed">>, <<"verified">>, <<"documented">> >> >>
opinion_patterns ==
    << << <<"i","think">>, <<"i","believe">>, <<"in","my","opinion">>, <<"it","seems">>, <<"appears">> >>,
       << <<"many","say">>, <<"some","argue">>, <<"critics","claim">>, <<"supporters","believe">> >>,
       << <<"should">>, <<"could">>, <<"would">>, <<"might">>, <<"may">> >> >>

\* "term in text" for every term of one vocabulary, in vocabulary order
TermsIn(terms, text) == SelectSeq(terms, LAMBDA term : Contains(text, term))

\* the alternative of a \b(a|b|...)\b pattern matches the words of text
\* that start at position i
MatchAt(text, i, alt) ==
    /\ i + Len(alt) - 1 <= Len(text)
    /\ \A j \in 1..Len(alt) : text[i + j - 1] = alt[j]

RECURSIVE FindAll(_, _, _)
\* re.findall(pattern, text) from position i on: the matches from left to
\* right, the first alternative that matches winning, no two overlapping
FindAll(pattern, text, i) ==
    IF i > Len(text) THEN <<>>
    ELSE LET hits == {k \in DOMAIN pattern : MatchAt(text, i, pattern[k])} IN
         IF hits = {} THEN FindAll(pattern, text, i + 1)
         ELSE LET k == CHOOSE h \in hits : \A g \in hits : h <= g IN
              <<pattern[k]>> \o FindAll(pattern, text, i + Len(pattern[k]))

RECURSIVE FindAllOf(_, _)
\* the "for pattern in patterns: ...extend(re.findall(pattern, text))" loops
FindAllOf(patterns, text) ==
    IF patterns = <<>> THEN <<>>
    ELSE FindAll(Head(patterns), text, 1) \o FindAllOf(Tail(patterns), text)

_detect_bias_indicators(text) ==
    [left_wing_terms |-> TermsIn(BIASED_TERMS.left_wing, text),
     right_wing_terms |-> TermsIn(BIASED_TERMS.right_wing, text),
     emotional_terms |-> TermsIn(BIASED_TERMS.emotional, text),
     partisan_terms |-> TermsIn(BIASED_TERMS.partisan, text),
     loaded_language |-> FindAllOf(loaded_patterns, text),
     factual_claims |-> FindAllOf(factual_patterns, text),
     opinion_indicators |-> FindAllOf(opinion_patterns, text)]

\* the iteration order of CREDIBLE_SOURCES.items()
CredibilityLevels == <<"high", "medium", "low">>

\* {"high": 0.9, "medium": 0.6, "low": 0.3}[credibility_level]
LevelScore(level) ==
    CASE level = "high" -> Rat(9, 10)
      [] level = "medium" -> Rat(6, 10)
      [] level = "low" -> Rat(3, 10)

\* f"Known {credibility_level} credibility source"
LevelReason(level) ==
    CASE level = "high" -> "Known high credibility source"
      [] level = "medium" -> "Known medium credibility source"
      [] level = "low" -> "Known low credibility source"

\* _assess_source_credibility with the tiers searched low, medium, high
_assess_source_credibility_LowFirst(source) ==
    LET source_lower == LowerName(source)
        order == <<"low", "medium", "high">>
        matching == {i \in DOMAIN order :
                        \E k \in DOMAIN CREDIBLE_SOURCES[order[i]] :
                           Contains(source_lower, CREDIBLE_SOURCES[order[i]][k])}
    IN IF matching # {}
       THEN LET i == CHOOSE m \in matching : \A n \in matching : m <= n
                credibility_level == order[i]
            IN [level |-> credibility_level,
                score |-> LevelScore(credibility_level),
                reason |-> LevelReason(credibility_level)]
       ELSE [level |-> "unknown", score |-> Rat(5, 10),
             reason |-> "Unknown source - requires additional verification"]

_assess_source_credibility(source) ==
    LET source_lower == LowerName(source)
        matching == {i \in DOMAIN CredibilityLevels :
                        \E k \in DOMAIN CREDIBLE_SOURCES[CredibilityLevels[i]] :
                           Contains(source_lower, CREDIBLE_SOURCES[CredibilityLevels[i]][k])}
    IN IF matching # {}
       THEN LET i == CHOOSE m \in matching : \A n \in matching : m <= n
                credibility_level == CredibilityLevels[i]
            IN [level |-> credibility_level,
                score |-> LevelScore(credibility_level),
                reason |-> LevelReason(credibility_level)]
       ELSE [level |-> "unknown", score |-> Rat(5, 10),
             reason |-> "Unknown source - requires additional verification"]

_detect_emotional_language(text) ==
    LET emotional_count == Len(TermsIn(BIASED_TERMS.emotional, text))
        word_count == WordCount(text)
    IN IF word_count = 0 THEN Rat(0, 1)
       ELSE RMin(RMul(Rat(emotional_count, word_count), Rat(100, 1)), Rat(1, 1))

\* _detect_partisan_language scaling the ratio by 100, as the emotional
\* score does
_detect_partisan_language_Times100(text) ==
    LET partisan_count == Len(TermsIn(BIASED_TERMS.partisan, text))
        word_count == WordCount(text)
    IN IF word_count = 0 THEN Rat(0, 1)
       ELSE RMin(RMul(Rat(partisan_count, word_count), Rat(100, 1)), Rat(1, 1))

_detect_partisan_language(text) ==
    LET partisan_count == Len(TermsIn(BIASED_TERMS.partisan, text))
        word_count == WordCount(text)
    IN IF word_count = 0 THEN Rat(0, 1)
       ELSE RMin(RMul(Rat(partisan_count, word_count), Rat(50, 1)), Rat(1, 1))

\* _calculate_bias_score with the weights of the emotional and the partisan
\* penalty exchanged
_calculate_bias_score_SwappedWeights(bias_indicators, credibility_score, emotional_score, partisan_score, tie) ==
    LET base_score == credibility_score.score
        loaded_penalty == RMul(Rat(Len(bias_indicators.loaded_language), 1), Rat(5, 100))
        opinion_ratio == Rat(Len(bias_indicators.opinion_indicators),
                             Max(Len(bias_indicators.factual_claims), 1))
        bias_penalty ==
            RAdd(RAdd(RAdd(RMul(emotional_score, Rat(4, 10)),
                           RMul(partisan_score, Rat(3, 10))),
                      RMin(loaded_penalty, Rat(2, 10))),
                 RMin(RMul(opinion_ratio, Rat(2, 10)), Rat(3, 10)))
        final_score == RMax(Rat(0, 1), RSub(base_score, bias_penalty))
    IN Round2(final_score, tie)

\* _calculate_bias_score without the floor at 0.0 and without the rounding
_calculate_bias_score_Unclamped(bias_indicators, credibility_score, emotional_score, partisan_score, tie) ==
    LET base_score == credibility_score.score
        loaded_penalty == RMul(Rat(Len(bias_indicators.loaded_language), 1), Rat(5, 100))
        opinion_ratio == Rat(Len(bias_indicators.opinion_indicators),
                             Max(Len(bias_indicators.factual_claims), 1))
        bias_penalty ==
            RAdd(RAdd(RAdd(RMul(emotional_score, Rat(3, 10)),
                           RMul(partisan_score, Rat(4, 10))),
                      RMin(loaded_penalty, Rat(2, 10))),
                 RMin(RMul(opinion_ratio, Rat(2, 10)), Rat(3, 10)))
    IN RSub(base_score, bias_penalty)

\* _calculate_bias_score crediting 0.05 for every factual claim
_calculate_bias_score_FactualBonus(bias_indicators, credibility_score, emotional_score, partisan_score, tie) ==
    LET base_score == RAdd(credibility_score.score,
                           Rat(5 * Len(bias_indicators.factual_claims), 100))
        loaded_penalty == RMul(Rat(Len(bias_indicators.loaded_language), 1), Rat(5, 100))
        opinion_ratio == Rat(Len(bias_indicators.opinion_indicators),
                             Max(Len(bias_indicators.factual_claims), 1))
        bias_penalty ==
            RAdd(RAdd(RAdd(RMul(emotional_score, Rat(3, 10)),
                           RMul(partisan_score, Rat(4, 10))),
                      RMin(loaded_penalty, Rat(2, 10))),
                 RMin(RMul(opinion_ratio, Rat(2, 10)), Rat(3, 10)))
        final_score == RMax(Rat(0, 1), RSub(base_score, bias_penalty))
    IN Round2(final_score, tie)

_calculate_bias_score(bias_indicators, credibility_score, emotional_score, partisan_score, tie) ==
    LET base_score == credibility_score.score
        loaded_penalty == RMul(Rat(Len(bias_indicators.loaded_language), 1), Rat(5, 100))
        opinion_ratio == Rat(Len(bias_indicators.opinion_indicators),
                             Max(Len(bias_indicators.factual_claims), 1))
        bias_penalty ==
            RAdd(RAdd(RAdd(RMul(emotional_score, Rat(3, 10)),
                           RMul(partisan_score, Rat(4, 10))),
                      RMin(loaded_penalty, Rat(2, 10))),
                 RMin(RMul(opinion_ratio, Rat(2, 10)), Rat(3, 10)))
        final_score == RMax(Rat(0, 1), RSub(base_score, bias_penalty))
    IN Round2(final_score, tie)

LowBiasLabel == <<"Low", "Bias", "-", "Highly", "Credible">>
ModerateBiasLabel == <<"Moderate", "Bias", "-", "Generally", "Reliable">>
HighBiasLabel == <<"High", "Bias", "-", "Exercise", "Caution">>
VeryHighBiasLabel == <<"Very", "High", "Bias", "-", "Questionable", "Reliability">>

\* _categorize_bias with strict comparisons
_categorize_bias_Strict(bias_score) ==
    IF RLess(Rat(8, 10), bias_score) THEN LowBiasLabel
    ELSE IF RLess(Rat(6, 10), bias_score) THEN ModerateBiasLabel
    ELSE IF RLess(Rat(4, 10), bias_score) THEN HighBiasLabel
    ELSE VeryHighBiasLabel

\* _categorize_bias with 'Moderate Bias' starting at 0.5
_categorize_bias_ModerateFromHalf(bias_score) ==
    IF RLeq(Rat(8, 10), bias_score) THEN LowBiasLabel
    ELSE IF RLeq(Rat(5, 10), bias_score) THEN ModerateBiasLabel
    ELSE IF RLeq(Rat(4, 10), bias_score) THEN HighBiasLabel
    ELSE VeryHighBiasLabel

_categorize_bias(bias_score) ==
    IF RLeq(Rat(8, 10), bias_score) THEN LowBiasLabel
    ELSE IF RLeq(Rat(6, 10), bias_score) THEN ModerateBiasLabel
    ELSE IF RLeq(Rat(4, 10), bias_score) THEN HighBiasLabel
    ELSE VeryHighBiasLabel

\* _generate_recommendations with the partisan flag given for more than 3
\* partisan terms
_generate_recommendations_ThreePartisan(bias_indicators, credibility_score, overall_bias_score) ==
    LET recommendations ==
            (IF RLess(overall_bias_score, Rat(4, 10))
             THEN <<"Cross-reference with multiple sources",
                    "Verify factual claims independently",
                    "Consider alternative viewpoints">>
             ELSE <<>>)
         \o (IF Len(bias_indicators.emotional_terms) > 3
             THEN <<"Article contains emotional language - focus on facts">>
             ELSE <<>>)
         \o (IF Len(bias_indicators.partisan_terms) > 3
             THEN <<"Article shows partisan bias - seek balanced coverage">>
             ELSE <<>>)
         \o (IF credibility_score.level = "unknown"
             THEN <<"Source credibility unknown - verify independently">>
             ELSE <<>>)
         \o (IF Len(bias_indicators.opinion_indicators) > Len(bias_indicators.factual_claims)
             THEN <<"Article contains more opinion than fact">>
             ELSE <<>>)
    IN IF recommendations = <<>>
       THEN <<"Article appears balanced and credible">>
       ELSE recommendations

_generate_recommendations(bias_indicators, credibility_score, overall_bias_score) ==
    LET recommendations ==
            (IF RLess(overall_bias_score, Rat(4, 10))
             THEN <<"Cross-reference with multiple sources",
                    "Verify factual claims independently",
                    "Consider alternative viewpoints">>
             ELSE <<>>)
         \o (IF Len(bias_indicators.emotional_terms) > 3
             THEN <<"Article contains emotional language - focus on facts">>
             ELSE <<>>)
         \o (IF Len(bias_indicators.partisan_terms) > 2
             THEN <<"Article shows partisan bias - seek balanced coverage">>
             ELSE <<>>)
         \o (IF credibility_score.level = "unknown"
             THEN <<"Source credibility unknown - verify independently">>
             ELSE <<>>)
         \o (IF Len(bias_indicators.opinion_indicators) > Len(bias_indicators.factual_claims)
             THEN <<"Article contains more opinion than fact">>
             ELSE <<>>)
    IN IF recommendations = <<>>
       THEN <<"Article appears balanced and credible">>
       ELSE recommendations

\* analyze_article_bias with the loaded_language list shared between calls:
\* the matches of the call before are still in it
analyze_article_bias_SharedIndicators(a, tie) ==
    LET title == LowerText(a.title)
        description == LowerText(a.description)
        content == LowerText(a.content)
        source == LowerName(a.source)
        full_text == title \o description \o content
        earlier == IF runs = <<>> THEN <<>>
                   ELSE runs[Len(runs)].result.bias_indicators.loaded_language
        detected == _detect_bias_indicators(full_text)
        bias_indicators == [detected EXCEPT !.loaded_language = earlier \o @]
        credibility_score == _assess_source_credibility(source)
        emotional_score == _detect_emotional_language(full_text)
        partisan_score == _detect_partisan_language(full_text)
        overall_bias_score == _calculate_bias_score(bias_indicators, credibility_score,
                                                    emotional_score, partisan_score, tie)
    IN [article_title |-> a.title,
        source |-> a.source,
        bias_indicators |-> bias_indicators,
        credibility_score |-> credibility_score,
        emotional_score |-> emotional_score,
        partisan_score |-> partisan_score,
        overall_bias_score |-> overall_bias_score,
        bias_category |-> _categorize_bias(overall_bias_score),
        recommendations |-> _generate_recommendations(bias_indicators, credibility_score,
                                                     overall_bias_score)]

\* tie: see Round2
analyze_article_bias(a, tie) ==
    LET title == LowerText(a.title)
        description == LowerText(a.description)
        content == LowerText(a.content)
        source == LowerName(a.source)
        full_text == title \o description \o content
        bias_indicators == _detect_bias_indicators(full_text)
        credibility_score == _assess_source_credibility(source)
        emotional_score == _detect_emotional_language(full_text)
        partisan_score == _detect_partisan_language(full_text)
        overall_bias_score == _calculate_bias_score(bias_indicators, credibility_score,
                                                    emotional_score, partisan_score, tie)
    IN [article_title |-> a.title,
        source |-> a.source,
        bias_indicators |-> bias_indicators,
        credibility_score |-> credibility_score,
        emotional_score |-> emotional_score,
        partisan_score |-> partisan_score,
        overall_bias_score |-> overall_bias_score,
        bias_category |-> _categorize_bias(overall_bias_score),
        recommendations |-> _generate_recommendations(bias_indicators, credibility_score,
                                                     overall_bias_score)]

\* the iteration order of analysis["bias_indicators"].items()
IndicatorTypes ==
    <<"left_wing_terms", "right_wing_terms", "emotional_terms", "partisan_terms",
      "loaded_language", "factual_claims", "opinion_indicators">>

\* the keys f"{indicator_type}: {indicator}" of one analysis, in the order
\* the nested loops of _get_common_bias_indicators visit them
IndicatorKeys(one) ==
    Flatten([t \in DOMAIN IndicatorTypes |->
               [k \in DOMAIN one.bias_indicators[IndicatorTypes[t]] |->
                  [type |-> IndicatorTypes[t],
                   term |-> one.bias_indicators[IndicatorTypes[t]][k]]]])

RECURSIVE FirstSeen(_, _)
\* the keys of indicator_counts in insertion order
FirstSeen(occurrences, keysSoFar) ==
    IF occurrences = <<>> THEN keysSoFar
    ELSE IF \E i \in DOMAIN keysSoFar : keysSoFar[i] = Head(occurrences)
         THEN FirstSeen(Tail(occurrences), keysSoFar)
         ELSE FirstSeen(Tail(occurrences), Append(keysSoFar, Head(occurrences)))

\* an item placed into a list already in non-increasing count order, after
\* every item whose count is not smaller
InsertByCount(sorted, item) ==
    LET smaller == {i \in DOMAIN sorted : sorted[i].count < item.count}
        at == IF smaller = {} THEN Len(sorted) + 1
              ELSE CHOOSE i \in smaller : \A j \in smaller : i <= j
    IN SubSeq(sorted, 1, at - 1) \o <<item>> \o SubSeq(sorted, at, Len(sorted))

RECURSIVE SortedByCount(_, _)
\* sorted(indicator_counts.items(), key=lambda x: x[1], reverse=True)
SortedByCount(todo, sorted) ==
    IF todo = <<>> THEN sorted
    ELSE SortedByCount(Tail(todo), InsertByCount(sorted, Head(todo)))

\* _get_common_bias_indicators keeping the first 10 keys it met and
\* sorting those
_get_common_bias_indicators_CutThenSort(analyzed_articles) ==
    LET occurrences == Flatten([i \in DOMAIN analyzed_articles |->
                                   IndicatorKeys(analyzed_articles[i])])
        ks == FirstSeen(occurrences, <<>>)
        indicator_counts ==
            [i \in DOMAIN ks |->
               [key |-> ks[i],
                count |-> Cardinality({o \in DOMAIN occurrences : occurrences[o] = ks[i]})]]
    IN SortedByCount(SubSeq(indicator_counts, 1, Min(10, Len(indicator_counts))), <<>>)

\* the returned dict as the list of its items, in the order the dict holds
\* them; a key f"{indicator_type}: {indicator}" as the pair of its parts
_get_common_bias_indicators(analyzed_articles) ==
    LET occurrences == Flatten([i \in DOMAIN analyzed_articles |->
                                   IndicatorKeys(analyzed_articles[i])])
        ks == FirstSeen(occurrences, <<>>)
        indicator_counts ==
            [i \in DOMAIN ks |->
               [key |-> ks[i],
                count |-> Cardinality({o \in DOMAIN occurrences : occurrences[o] = ks[i]})]]
        sorted_indicators == SortedByCount(indicator_counts, <<>>)
    IN SubSeq(sorted_indicators, 1, Min(10, Len(sorted_indicators)))

BucketNames == {"Low Bias", "Moderate Bias", "High Bias", "Very High Bias"}

\* the bucket the if / elif chain of analyze_news_bias counts a category in
BucketOf(category) ==
    IF Contains(category, <<"Low", "Bias">>) THEN "Low Bias"
    ELSE IF Contains(category, <<"Moderate", "Bias">>) THEN "Moderate Bias"
    ELSE IF Contains(category, <<"High", "Bias">>) THEN "High Bias"
    ELSE "Very High Bias"

RECURSIVE SumScores(_)
\* total_bias_score after the loop
SumScores(analyzed) ==
    IF analyzed = <<>> THEN Rat(0, 1)
    ELSE RAdd(Head(analyzed).overall_bias_score, SumScores(Tail(analyzed)))

\* the overall recommendations with "at least half" in place of "more
\* than half"
OverallRecommendations_AtLeastHalf(avg_bias_score, bias_distribution, n) ==
       (IF RLess(avg_bias_score, Rat(6, 10))
        THEN <<"Overall coverage shows bias - seek diverse sources">> ELSE <<>>)
    \o (IF 2 * (bias_distribution["High Bias"] + bias_distribution["Very High Bias"]) >= n
        THEN <<"Majority of articles show bias - verify information">> ELSE <<>>)
    \o (IF 10 * bias_distribution["Low Bias"] > 7 * n
        THEN <<"Most articles appear credible and balanced">> ELSE <<>>)

\* the three "if" statements that fill overall_recommendations; n is
\* len(articles).  count > n * 0.5 and count > n * 0.7 are compared
\* exactly, and so is avg_bias_score < 0.6: for the batches of the model
\* the float sum and the exact one lie on the same side of 0.6
OverallRecommendations(avg_bias_score, bias_distribution, n) ==
       (IF RLess(avg_bias_score, Rat(6, 10))
        THEN <<"Overall coverage shows bias - seek diverse sources">> ELSE <<>>)
    \o (IF 2 * (bias_distribution["High Bias"] + bias_distribution["Very High Bias"]) > n
        THEN <<"Majority of articles show bias - verify information">> ELSE <<>>)
    \o (IF 10 * bias_distribution["Low Bias"] > 7 * n
        THEN <<"Most articles appear credible and balanced">> ELSE <<>>)

\* [a["source"] for a in analyzed_articles if a["overall_bias_score"] >= 0.8]
MostCredibleSources(analyzed) ==
    LET kept == SelectSeq(analyzed, LAMBDA a : RLeq(Rat(8, 10), a.overall_bias_score))
    IN [i \in DOMAIN kept |-> kept[i].source]

\* [a["source"] for a in analyzed_articles if a["overall_bias_score"] < 0.4]
LeastCredibleSources(analyzed) ==
    LET kept == SelectSeq(analyzed, LAMBDA a : RLess(a.overall_bias_score, Rat(4, 10)))
    IN [i \in DOMAIN kept |-> kept[i].source]

\* ties[i]: the tie of article i's score, avg_tie: that of the average
\* (see Round2)
analyze_news_bias(arts, ties, avg_tie) ==
    LET analyzed_articles == [i \in DOMAIN arts |-> analyze_article_bias(arts[i], ties[i])]
        total_bias_score == SumScores(analyzed_articles)
        bias_distribution ==
            [b \in BucketNames |->
               Cardinality({i \in DOMAIN analyzed_articles :
                              BucketOf(analyzed_articles[i].bias_category) = b})]
        avg_bias_score == IF Len(arts) > 0
                          THEN RMul(total_bias_score, Rat(1, Len(arts)))
                          ELSE Rat(0, 1)
    IN [total_articles_analyzed |-> Len(arts),
        average_bias_score |-> Round2(avg_bias_score, avg_tie),
        bias_distribution |-> bias_distribution,
        overall_recommendations |->
            OverallRecommendations(avg_bias_score, bias_distribution, Len(arts)),
        individual_analyses |-> analyzed_articles,
        analysis_summary |->
            [most_credible_sources |-> MostCredibleSources(analyzed_articles),
             least_credible_sources |-> LeastCredibleSources(analyzed_articles),
             common_bias_indicators |-> _get_common_bias_indicators(analyzed_articles)]]

(***************************************************************************)
(* The aggregator as a state machine: one scrape_political_news call.      *)
(***************************************************************************)
Topics == {"Congress", "Senate"}
\* the hours argument: None (the default) or a number of hours
HoursArgs == {"None", "24"}
\* the readings datetime.now() can give
MaxClock == 2
Clock == 1..MaxClock

\* values of the other components while this one runs
NoArticle == [title |-> EmptyText, description |-> EmptyText,
              content |-> EmptyText, source |-> <<>>]
NoAnalysis == <<>>
NoReport == <<>>
NoCred == <<>>
NoCategory == <<>>
\* no score yet: no language score is negative
NoLevel == [n |-> -1, d |-> 1]

ScrapeIdle ==
    /\ keys = [a \in ApiSet |-> FALSE]
    /\ request = "Congress"
    /\ hours = "None"
    /\ status = [a \in ApiSet |-> "not_requested"]
    /\ raw = [a \in ApiSet |-> <<>>]
    /\ fetched = [a \in ApiSet |-> <<>>]
    /\ result = Pending
ArticleIdle == article = NoArticle /\ analysis = NoAnalysis
BatchIdle == articles = <<>> /\ report = NoReport
CredIdle == srcname = <<>> /\ cred = NoCred
CategoryIdle == given_score = Rat(0, 1) /\ given_label = NoCategory
ProbeIdle ==
    probe_text = <<>> /\ emotional_level = NoLevel /\ partisan_level = NoLevel
RepeatIdle ==
    subject = NoArticle /\ subject_side = 0 /\ runs = <<>> /\ class_attrs = <<>>
\* no call made yet
NoCall == [op |-> "none"]
SessionIdle ==
    /\ sessions = <<>> /\ conversations = <<>>
    /\ session_timeout_hours = 0 /\ wall_clock = 0
    /\ ids_issued = 0 /\ msgs_issued = 0
    /\ sm_call = NoCall
InstagramIdle == clients = {} /\ accounts = <<>> /\ ig_call = NoCall
ManagersIdle == SessionIdle /\ InstagramIdle
OthersIdle == ProbeIdle /\ RepeatIdle /\ ManagersIdle

ScrapeInit ==
    /\ keys \in [ApiSet -> BOOLEAN]
    /\ request \in Topics
    /\ hours \in HoursArgs
    /\ pc = "newsapi"
    /\ status = [a \in ApiSet |-> "not_requested"]
    /\ raw = [a \in ApiSet |-> <<>>]
    /\ fetched = [a \in ApiSet |-> <<>>]
    /\ result = Pending
    /\ ArticleIdle /\ BatchIdle /\ CredIdle /\ CategoryIdle /\ OthersIdle

\* raw entries the responses have delivered so far
Delivered == Len(raw["NewsAPI"]) + Len(raw["GNews"]) + Len(raw["MediaStack"])

\* the bodies a response of the API may carry
Bodies(api, exchange) ==
    IF exchange = "200" THEN SeqsUpTo(RawEntries(api), MaxFetched - Delivered)
    ELSE {<<>>}

\* newsapi_articles = client.get_newsapi_articles(request)
GetNewsapiArticles ==
    /\ pc = "newsapi"
    /\ \E exchange \in (IF keys["NewsAPI"] THEN Exchanges ELSE {"no_key"}) :
       \E body \in Bodies("NewsAPI", exchange) :
          /\ status' = [status EXCEPT !["NewsAPI"] = exchange]
          /\ raw' = [raw EXCEPT !["NewsAPI"] = body]
          /\ fetched' = [fetched EXCEPT !["NewsAPI"] =
                            get_newsapi_articles(keys["NewsAPI"], exchange, body)]
    /\ pc' = "gnews"
    /\ UNCHANGED <<keys, request, hours, result>>
    /\ UNCHANGED <<articleVars, batchVars, credVars, categoryVars, probeVars, repeatVars, managerVars>>

\* gnews_articles = client.get_gnews_articles(request)
GetGnewsArticles ==
    /\ pc = "gnews"
    /\ \E exchange \in (IF keys["GNews"] THEN Exchanges ELSE {"no_key"}) :
       \E body \in Bodies("GNews", exchange) :
          /\ status' = [status EXCEPT !["GNews"] = exchange]
          /\ raw' = [raw EXCEPT !["GNews"] = body]
          /\ fetched' = [fetched EXCEPT !["GNews"] =
                            get_gnews_articles(keys["GNews"], exchange, body)]
    /\ pc' = "mediastack"
    /\ UNCHANGED <<keys, request, hours, result>>
    /\ UNCHANGED <<articleVars, batchVars, credVars, categoryVars, probeVars, repeatVars, managerVars>>

\* mediastack_articles = client.get_mediastack_articles(request)
GetMediastackArticles ==
    /\ pc = "mediastack"
    /\ \E exchange \in (IF keys["MediaStack"] THEN Exchanges ELSE {"no_key"}) :
       \E body \in Bodies("MediaStack", exchange) :
          /\ status' = [status EXCEPT !["MediaStack"] = exchange]
          /\ raw' = [raw EXCEPT !["MediaStack"] = body]
          /\ fetched' = [fetched EXCEPT !["MediaStack"] =
                            get_mediastack_articles(keys["MediaStack"], exchange, body)]
    /\ pc' = "combine"
    /\ UNCHANGED <<keys, request, hours, result>>
    /\ UNCHANGED <<articleVars, batchVars, credVars, categoryVars, probeVars, repeatVars, managerVars>>

\* the rest of scrape_political_news: it returns the record or an
\* exception leaves it
Combine ==
    /\ pc = "combine"
    /\ \E now \in Clock :
       \E set_order \in SetOrders({a \in ApiSet : fetched[a] # <<>>}) :
          result' = CombineArticles(request, fetched["NewsAPI"], fetched["GNews"],
                                    fetched["MediaStack"], now, set_order)
    /\ pc' = IF result'.outcome = "returned" THEN "done" ELSE "raised"
    /\ UNCHANGED <<keys, request, hours, status, raw, fetched>>
    /\ UNCHANGED <<articleVars, batchVars, credVars, categoryVars, probeVars, repeatVars, managerVars>>

ScrapeNext ==
    \/ GetNewsapiArticles
    \/ GetGnewsArticles
    \/ GetMediastackArticles
    \/ Combine

SpecScrape == ScrapeInit /\ [][ScrapeNext]_vars

(***************************************************************************)
(* The analyzer as state machines: one analyze_article_bias call, one      *)
(* analyze_news_bias call, one _assess_source_credibility call, one        *)
(* _categorize_bias call.                                                  *)
(***************************************************************************)
Bloomberg == <<"B","l","o","o","m","b","e","r","g">>
Breitbart == <<"B","r","e","i","t","b","a","r","t">>
UnknownBlog == <<"U","n","k","n","o","w","n"," ","B","l","o","g">>
ArticleSources == {Reuters, Bloomberg, Breitbart, UnknownBlog}

\* the words titles are built from
TitleWords == {"X", "all", "may", "Shocking", "the", "left", "MAGA"}
Titles == {EmptyText} \cup (SeqsUpTo(TitleWords, MaxTitleWords) \ {<<>>})
Descriptions ==
    { EmptyText,
      <<"all", "never", "clearly", "disaster", "always">>,
      <<"according", "to", "official", "figures">>,
      <<"outrageous", "shocking", "devastating", "amazing">>,
      <<"democrats", "say", "republicans", "claim", "the", "right">>,
      <<"outrageous", "shocking", "devastating", "amazing",
        "democrats", "say", "republicans", "claim", "the", "right">> }
Contents ==
    { EmptyText,
      <<"i", "think", "it", "should">> }

ArticlePool ==
    [title : Titles, description : Descriptions, content : Contents,
     source : ArticleSources]

ArticleInit ==
    /\ article \in ArticlePool
    /\ analysis = NoAnalysis
    /\ pc = "analyze"
    /\ ScrapeIdle /\ BatchIdle /\ CredIdle /\ CategoryIdle /\ OthersIdle

\* analysis = analyzer.analyze_article_bias(article)
AnalyzeArticle ==
    /\ pc = "analyze"
    /\ \E tie \in {0, 1} : analysis' = analyze_article_bias(article, tie)
    /\ pc' = "analyzed"
    /\ UNCHANGED <<article, batchVars, credVars, categoryVars, probeVars, repeatVars, managerVars>>
    /\ UNCHANGED <<keys, request, hours, status, raw, fetched, result>>

ArticleNext == AnalyzeArticle

SpecArticle == ArticleInit /\ [][ArticleNext]_vars

\* the articles batches are built from
PlainArticle(title, source) ==
    [title |-> title, description |-> EmptyText, content |-> EmptyText,
     source |-> source]
BatchPool ==
    { PlainArticle(<<"X">>, Reuters),
      PlainArticle(<<"X">>, Bloomberg),
      PlainArticle(<<"X">>, UnknownBlog),
      PlainArticle(<<"X">>, Breitbart),
      PlainArticle(<<"Shocking">>, Reuters),
      PlainArticle(<<"all">>, Reuters),
      [title |-> <<"X">>, content |-> EmptyText, source |-> Reuters,
       description |-> <<"all", "never", "clearly", "disaster", "always">>],
      [title |-> <<"X">>, content |-> EmptyText, source |-> Bloomberg,
       description |-> <<"outrageous", "shocking", "devastating", "amazing",
                         "democrats", "say", "republicans", "claim",
                         "the", "right">>] }

BatchInit ==
    /\ articles \in SeqsUpTo(BatchPool, MaxBatch)
    /\ report = NoReport
    /\ pc = "analyze"
    /\ ScrapeIdle /\ ArticleIdle /\ CredIdle /\ CategoryIdle /\ OthersIdle

\* report = analyze_news_bias(articles)
AnalyzeNewsBias ==
    /\ pc = "analyze"
    /\ LET \* the articles whose score lies halfway between two hundredths
           halfway == {i \in DOMAIN articles :
                         analyze_article_bias(articles[i], 0)
                           # analyze_article_bias(articles[i], 1)}
       IN \E side \in [halfway -> {0, 1}] : \E avg_tie \in {0, 1} :
             report' = analyze_news_bias(
                           articles,
                           [i \in DOMAIN articles |->
                              IF i \in DOMAIN side THEN side[i] ELSE 0],
                           avg_tie)
    /\ pc' = "analyzed"
    /\ UNCHANGED <<articles, articleVars, credVars, categoryVars, probeVars, repeatVars, managerVars>>
    /\ UNCHANGED <<keys, request, hours, status, raw, fetched, result>>

BatchNext == AnalyzeNewsBias

SpecBatch == BatchInit /\ [][BatchNext]_vars

\* batches whose mean falls between two hundredths next to a threshold of
\* the overall recommendations: one opinion cue against three factual cues
\* costs 0.2 / 3, which leaves 0.83, 0.53 and 0.43 of the bases 0.9, 0.6
\* and 0.5
HedgedArticle(source) ==
    [title |-> <<"X">>, content |-> EmptyText, source |-> source,
     description |-> <<"may", "official", "confirmed", "verified">>]

MeanPool ==
    { HedgedArticle(Reuters), HedgedArticle(Bloomberg), HedgedArticle(UnknownBlog),
      PlainArticle(<<"X">>, Bloomberg) }

MeanInit ==
    /\ articles \in SeqsUpTo(MeanPool, MaxBatch)
    /\ report = NoReport
    /\ pc = "analyze"
    /\ ScrapeIdle /\ ArticleIdle /\ CredIdle /\ CategoryIdle /\ OthersIdle

SpecMean == MeanInit /\ [][BatchNext]_vars

\* the source names handed to the credibility lookup: every allow-list
\* entry as listed and capitalised, and names outside or across the lists
SourceNames ==
    { <<"r","e","u","t","e","r","s">>,
      <<"R","e","u","t","e","r","s">>,
      <<"a","s","s","o","c","i","a","t","e","d"," ","p","r","e","s","s">>,
      <<"A","s","s","o","c","i","a","t","e","d"," ","P","r","e","s","s">>,
      <<"a","p">>,
      <<"A","P">>,
      <<"b","b","c"," ","n","e","w","s">>,
      <<"B","b","c"," ","N","e","w","s">>,
      <<"n","p","r">>,
      <<"N","P","R">>,
      <<"p","b","s">>,
      <<"P","B","S">>,
      <<"c","-","s","p","a","n">>,
      <<"C","-","S","p","a","n">>,
      <<"w","a","l","l"," ","s","t","r","e","e","t"," ","j","o","u","r","n","a","l">>,
      <<"W","a","l","l"," ","S","t","r","e","e","t"," ","J","o","u","r","n","a","l">>,
      <<"n","e","w"," ","y","o","r","k"," ","t","i","m","e","s">>,
      <<"N","e","w"," ","Y","o","r","k"," ","T","i","m","e","s">>,
      <<"w","a","s","h","i","n","g","t","o","n"," ","p","o","s","t">>,
      <<"W","a","s","h","i","n","g","t","o","n"," ","P","o","s","t">>,
      <<"u","s","a"," ","t","o","d","a","y">>,
      <<"U","s","a"," ","T","o","d","a","y">>,
      <<"c","n","n">>,
      <<"C","N","N">>,
      <<"f","o","x"," ","n","e","w","s">>,
      <<"F","o","x"," ","N","e","w","s">>,
      <<"m","s","n","b","c">>,
      <<"M","s","n","b","c">>,
      <<"a","b","c"," ","n","e","w","s">>,
      <<"A","b","c"," ","N","e","w","s">>,
      <<"c","b","s"," ","n","e","w","s">>,
      <<"C","b","s"," ","N","e","w","s">>,
      <<"n","b","c"," ","n","e","w","s">>,
      <<"N","b","c"," ","N","e","w","s">>,
      <<"p","o","l","i","t","i","c","o">>,
      <<"P","o","l","i","t","i","c","o">>,
      <<"r","o","l","l"," ","c","a","l","l">>,
      <<"R","o","l","l"," ","C","a","l","l">>,
      <<"t","h","e"," ","h","i","l","l">>,
      <<"T","h","e"," ","H","i","l","l">>,
      <<"b","l","o","o","m","b","e","r","g">>,
      <<"B","l","o","o","m","b","e","r","g">>,
      <<"f","o","r","b","e","s">>,
      <<"F","o","r","b","e","s">>,
      <<"t","i","m","e">>,
      <<"T","I","M","E">>,
      <<"n","e","w","s","w","e","e","k">>,
      <<"N","e","w","s","w","e","e","k">>,
      <<"t","h","e"," ","a","t","l","a","n","t","i","c">>,
      <<"T","h","e"," ","A","t","l","a","n","t","i","c">>,
      <<"t","h","e"," ","n","e","w"," ","y","o","r","k","e","r">>,
      <<"T","h","e"," ","N","e","w"," ","Y","o","r","k","e","r">>,
      <<"n","a","t","i","o","n","a","l"," ","r","e","v","i","e","w">>,
      <<"N","a","t","i","o","n","a","l"," ","R","e","v","i","e","w">>,
      <<"t","h","e"," ","n","a","t","i","o","n">>,
      <<"T","h","e"," ","N","a","t","i","o","n">>,
      <<"m","o","t","h","e","r"," ","j","o","n","e","s">>,
      <<"M","o","t","h","e","r"," ","J","o","n","e","s">>,
      <<"b","r","e","i","t","b","a","r","t">>,
      <<"B","r","e","i","t","b","a","r","t">>,
      <<"d","a","i","l","y"," ","c","a","l","l","e","r">>,
      <<"D","a","i","l","y"," ","C","a","l","l","e","r">>,
      <<"d","a","i","l","y"," ","b","e","a","s","t">>,
      <<"D","a","i","l","y"," ","B","e","a","s","t">>,
      <<"h","u","f","f","p","o","s","t">>,
      <<"H","u","f","f","p","o","s","t">>,
      <<"v","o","x">>,
      <<"V","O","X">>,
      <<"b","u","z","z","f","e","e","d"," ","n","e","w","s">>,
      <<"B","u","z","z","f","e","e","d"," ","N","e","w","s">>,
      <<"v","i","c","e"," ","n","e","w","s">>,
      <<"V","i","c","e"," ","N","e","w","s">>,
      <<"s","a","l","o","n">>,
      <<"S","a","l","o","n">>,
      <<"a","l","t","e","r","n","e","t">>,
      <<"A","l","t","e","r","n","e","t">>,
      <<"U","n","k","n","o","w","n"," ","B","l","o","g">>,
      <<"U","n","k","n","o","w","n"," ","N","e","w","s"," ","S","o","u","r","c","e">>,
      <<>>,
      <<"C","a","p","i","t","o","l"," ","W","e","e","k","l","y">>,
      <<"F","i","n","a","n","c","i","a","l"," ","T","i","m","e","s">>,
      <<"V","o","x"," ","v","i","a"," ","R","e","u","t","e","r","s">>,
      <<"S","a","l","o","n"," ","a","n","d"," ","F","o","r","b","e","s">>,
      <<"T","h","e"," ","D","a","i","l","y"," ","P","l","a","n","e","t">>,
      <<"R","e","u","t","e","r">>,
      <<"S","u","b","s","t","a","c","k">> }

CredInit ==
    /\ srcname \in SourceNames
    /\ cred = NoCred
    /\ pc = "assess"
    /\ ScrapeIdle /\ ArticleIdle /\ BatchIdle /\ CategoryIdle /\ OthersIdle

\* cred = analyzer._assess_source_credibility(srcname)
AssessSourceCredibility ==
    /\ pc = "assess"
    /\ cred' = _assess_source_credibility(srcname)
    /\ pc' = "assessed"
    /\ UNCHANGED <<srcname, articleVars, batchVars, categoryVars, probeVars, repeatVars, managerVars>>
    /\ UNCHANGED <<keys, request, hours, status, raw, fetched, result>>

CredNext == AssessSourceCredibility

SpecCred == CredInit /\ [][CredNext]_vars

\* the scores handed to _categorize_bias: every thousandth of [0, 1]
Scores == {Rat(k, 1000) : k \in 0..1000}

CategoryInit ==
    /\ given_score \in Scores
    /\ given_label = NoCategory
    /\ pc = "categorize"
    /\ ScrapeIdle /\ ArticleIdle /\ BatchIdle /\ CredIdle /\ OthersIdle

\* given_label = analyzer._categorize_bias(given_score)
CategorizeBias ==
    /\ pc = "categorize"
    /\ given_label' = _categorize_bias(given_score)
    /\ pc' = "categorized"
    /\ UNCHANGED <<given_score, articleVars, batchVars, credVars, probeVars, repeatVars, managerVars>>
    /\ UNCHANGED <<keys, request, hours, status, raw, fetched, result>>

\* _categorize_bias called on a score of its own or on the score of an
\* article under analysis
LabelInit == CategoryInit \/ ArticleInit
LabelNext == CategorizeBias \/ AnalyzeArticle

SpecLabel == LabelInit /\ [][LabelNext]_vars

(***************************************************************************)
(* The two language scores called on a text of their own, as               *)
(* analyzer._detect_emotional_language(text) and                           *)
(* analyzer._detect_partisan_language(text).  The scores fall below their  *)
(* cap only in texts of more than 100 (50) words per vocabulary entry, so  *)
(* the texts are a short head of phrases followed by a run of plain words. *)
(***************************************************************************)
MaxProbePhrases == 2

ProbePhrases ==
    { <<"shocking">>, <<"amazing">>, <<"the", "left">>, <<"the", "right">>,
      <<"council">>, <<"">> }

\* the lengths of the run of plain words
FillerLengths == {0, 48, 49, 98, 99, 100, 198, 199}

ProbeTexts ==
    {Flatten(head) \o [i \in 1..n |-> "x"] :
        head \in SeqsUpTo(ProbePhrases, MaxProbePhrases) \ {<<>>}, n \in FillerLengths}

ProbeInit ==
    /\ probe_text \in ProbeTexts
    /\ emotional_level = NoLevel
    /\ partisan_level = NoLevel
    /\ pc = "probe"
    /\ ScrapeIdle /\ ArticleIdle /\ BatchIdle /\ CredIdle /\ CategoryIdle
    /\ RepeatIdle /\ ManagersIdle

\* emotional_level = analyzer._detect_emotional_language(probe_text)
DetectEmotionalLanguage ==
    /\ pc = "probe"
    /\ emotional_level = NoLevel
    /\ emotional_level' = _detect_emotional_language(probe_text)
    /\ UNCHANGED <<pc, probe_text, partisan_level, repeatVars, managerVars>>
    /\ UNCHANGED <<articleVars, batchVars, credVars, categoryVars>>
    /\ UNCHANGED <<keys, request, hours, status, raw, fetched, result>>

\* partisan_level = analyzer._detect_partisan_language(probe_text)
DetectPartisanLanguage ==
    /\ pc = "probe"
    /\ partisan_level = NoLevel
    /\ partisan_level' = _detect_partisan_language(probe_text)
    /\ UNCHANGED <<pc, probe_text, emotional_level, repeatVars, managerVars>>
    /\ UNCHANGED <<articleVars, batchVars, credVars, categoryVars>>
    /\ UNCHANGED <<keys, request, hours, status, raw, fetched, result>>

\* the language scores of a text of their own and those of a whole article
LanguageInit == ProbeInit \/ ArticleInit
LanguageNext == DetectEmotionalLanguage \/ DetectPartisanLanguage \/ AnalyzeArticle

SpecLanguage == LanguageInit /\ [][LanguageNext]_vars

(***************************************************************************)
(* One article dict analysed again and again, by one BiasAnalyzer or by    *)
(* several, with analyses of other articles in between.  BIASED_TERMS and  *)
(* CREDIBLE_SOURCES are class attributes, shared by every instance; the    *)
(* methods read them and the dict and assign to neither, and every list    *)
(* and dict of a result record is built anew in the call.                  *)
(***************************************************************************)
MaxRuns == 3

\* the BiasAnalyzer objects at hand
Instances == {1, 2}

\* the article analysed repeatedly, and the articles analysed in between
SubjectPool == BatchPool
OtherPool ==
    { PlainArticle(<<"Shocking">>, Breitbart),
      [title |-> <<"X">>, content |-> EmptyText, source |-> UnknownBlog,
       description |-> <<"all", "never", "clearly">>] }

ClassAttrs == [BIASED_TERMS |-> BIASED_TERMS, CREDIBLE_SOURCES |-> CREDIBLE_SOURCES]

\* the float a score is computed in is the same at every call, so a score
\* halfway between two hundredths falls on the same side each time
RepeatInit ==
    /\ subject \in SubjectPool
    /\ subject_side \in {0, 1}
    /\ runs = <<>>
    /\ class_attrs = ClassAttrs
    /\ pc = "repeat"
    /\ ScrapeIdle /\ ArticleIdle /\ BatchIdle /\ CredIdle /\ CategoryIdle
    /\ ProbeIdle /\ ManagersIdle

\* BiasAnalyzer instance number `instance` analyses the subject:
\* runs.append(instance.analyze_article_bias(subject))
AnalyzeSubject ==
    /\ pc = "repeat"
    /\ Len(runs) < MaxRuns
    /\ \E instance \in Instances :
          runs' = Append(runs, [instance |-> instance, input |-> subject,
                                result |-> analyze_article_bias(subject, subject_side)])
    /\ UNCHANGED <<pc, subject, subject_side, class_attrs, probeVars, managerVars>>
    /\ UNCHANGED <<articleVars, batchVars, credVars, categoryVars>>
    /\ UNCHANGED <<keys, request, hours, status, raw, fetched, result>>

\* some instance analyses another article
AnalyzeOther ==
    /\ pc = "repeat"
    /\ Len(runs) < MaxRuns
    /\ \E instance \in Instances : \E other \in OtherPool : \E tie \in {0, 1} :
          runs' = Append(runs, [instance |-> instance, input |-> other,
                                result |-> analyze_article_bias(other, tie)])
    /\ UNCHANGED <<pc, subject, subject_side, class_attrs, probeVars, managerVars>>
    /\ UNCHANGED <<articleVars, batchVars, credVars, categoryVars>>
    /\ UNCHANGED <<keys, request, hours, status, raw, fetched, result>>

RepeatNext == AnalyzeSubject \/ AnalyzeOther

SpecRepeat == RepeatInit /\ [][RepeatNext]_vars

(***************************************************************************)
(* SessionManager (src/managers/session_manager.py).  Session and message  *)
(* ids come from uuid4 and are taken to be fresh each time; datetime.now() *)
(* is a clock that never runs backwards, read in whole hours.              *)
(***************************************************************************)
MaxSessions == 1
MaxMessages == 2
MaxNow == 2

\* f"session_{uuid.uuid4().hex[:16]}", the n-th id produced
SessionId(n) == <<"session", n>>
\* f"msg_{uuid.uuid4().hex[:12]}", the n-th id produced
MessageId(n) == <<"msg", n>>
\* f"user_{uuid.uuid4().hex[:12]}", generated for the n-th session
GeneratedUserId(n) ==
    CASE n = 1 -> "user_1" [] n = 2 -> "user_2" [] n = 3 -> "user_3"
      [] OTHER -> "user_n"

\* the ids a caller may pass: those produced so far or later, and one that
\* is never produced
SessionIds == {SessionId(n) : n \in 0..MaxSessions}
\* the user_id argument: callers leave it out, so it is None
UserArgs == {"None"}
\* the values of session_timeout_hours
TimeoutChoices == {1}
\* the limit argument of get_conversation_history: None or an int
NoLimit == [py |-> "None", n |-> 0]
IntLimit(n) == [py |-> "int", n |-> n]
Limits == {NoLimit} \cup {IntLimit(n) : n \in 0..(MaxMessages + 1)}
\* Python's truth value of such an argument
Truthy(x) == x.py = "int" /\ x.n # 0

\* a dict with one more key, or with the key rebound
DictSet(d, key, value) ==
    [k \in DOMAIN d \cup {key} |-> IF k = key THEN value ELSE d[k]]
\* a dict without some keys
DictDel(d, gone) == [k \in DOMAIN d \ gone |-> d[k]]

\* SessionManager.create_session; the result carries the maps after the
\* call and the returned id
create_session(ss, cs, user_arg, n, clock) ==
    LET user_id == IF user_arg = "None" THEN GeneratedUserId(n) ELSE user_arg
        session_id == SessionId(n)
        session == [cls |-> "ChatSession", session_id |-> session_id,
                    user_id |-> user_id, created_at |-> clock,
                    last_activity |-> clock, message_count |-> 0,
                    is_active |-> TRUE]
    IN [sessions |-> DictSet(ss, session_id, session),
        conversations |-> DictSet(cs, session_id, <<>>),
        outcome |-> "returned", value |-> session_id]

\* is_session_valid looking at the age of the session only, not at
\* is_active
is_session_valid_AgeOnly(ss, session_id, clock, timeout) ==
    IF session_id \notin DOMAIN ss
    THEN [sessions |-> ss, value |-> FALSE]
    ELSE IF ss[session_id].last_activity < clock - timeout
    THEN [sessions |-> [ss EXCEPT ![session_id].is_active = FALSE],
          value |-> FALSE]
    ELSE [sessions |-> ss, value |-> TRUE]

\* SessionManager.is_session_valid: it marks a session it finds expired
is_session_valid(ss, session_id, clock, timeout) ==
    IF session_id \notin DOMAIN ss
    THEN [sessions |-> ss, value |-> FALSE]
    ELSE IF ~ss[session_id].is_active
    THEN [sessions |-> ss, value |-> FALSE]
    ELSE IF ss[session_id].last_activity < clock - timeout
    THEN [sessions |-> [ss EXCEPT ![session_id].is_active = FALSE],
          value |-> FALSE]
    ELSE [sessions |-> ss, value |-> TRUE]

\* SessionManager.add_message
add_message(ss, cs, session_id, user_arg, n, clock, timeout) ==
    LET checked == is_session_valid(ss, session_id, clock, timeout)
        message_id == MessageId(n)
        chat_message == [cls |-> "ChatMessage", message_id |-> message_id,
                         user_id |-> user_arg, session_id |-> session_id,
                         message |-> "hello", response |-> "hi",
                         timestamp |-> clock]
        held == IF session_id \in DOMAIN cs THEN cs[session_id] ELSE <<>>
    IN IF ~checked.value
       THEN [sessions |-> checked.sessions, conversations |-> cs,
             outcome |-> "ValueError", value |-> <<>>]
       ELSE [sessions |-> [checked.sessions EXCEPT
                              ![session_id].last_activity = clock,
                              ![session_id].message_count = @ + 1],
             conversations |-> DictSet(cs, session_id, Append(held, chat_message)),
             outcome |-> "returned", value |-> message_id]

\* dataclasses.asdict on a ChatMessage or ChatSession: a plain dict of its
\* fields
asdict(obj) == [k \in DOMAIN obj \ {"cls"} |-> obj[k]]

\* message_dicts[-limit:]
LastItems(list, limit) ==
    LET first == IF limit > 0 THEN Max(Len(list) - limit, 0) + 1
                 ELSE Min(-limit, Len(list)) + 1
    IN SubSeq(list, first, Len(list))

\* SessionManager.get_conversation_history
get_conversation_history(cs, session_id, limit) ==
    IF session_id \notin DOMAIN cs THEN <<>>
    ELSE LET messages == cs[session_id]
             message_dicts == [i \in DOMAIN messages |-> asdict(messages[i])]
         IN IF Truthy(limit)
            THEN LastItems(message_dicts, limit.n)
            ELSE message_dicts

\* SessionManager.end_session
end_session(ss, session_id) ==
    IF session_id \in DOMAIN ss
    THEN [sessions |-> [ss EXCEPT ![session_id].is_active = FALSE], value |-> TRUE]
    ELSE [sessions |-> ss, value |-> FALSE]

\* cleanup_expired_sessions deleting the sessions and leaving their
\* conversations behind
cleanup_expired_sessions_KeepsConversations(ss, cs, clock, timeout) ==
    LET timeout_threshold == clock - timeout
        expired_sessions == {id \in DOMAIN ss : ss[id].last_activity < timeout_threshold}
    IN [sessions |-> DictDel(ss, expired_sessions),
        conversations |-> cs,
        value |-> Cardinality(expired_sessions)]

\* SessionManager.cleanup_expired_sessions
cleanup_expired_sessions(ss, cs, clock, timeout) ==
    LET timeout_threshold == clock - timeout
        expired_sessions == {id \in DOMAIN ss : ss[id].last_activity < timeout_threshold}
    IN [sessions |-> DictDel(ss, expired_sessions),
        conversations |-> DictDel(cs, expired_sessions),
        value |-> Cardinality(expired_sessions)]

SessionInit ==
    /\ sessions = <<>>
    /\ conversations = <<>>
    /\ session_timeout_hours \in TimeoutChoices
    /\ wall_clock = 0
    /\ ids_issued = 0
    /\ msgs_issued = 0
    /\ sm_call = NoCall
    /\ pc = "sessions"
    /\ ScrapeIdle /\ ArticleIdle /\ BatchIdle /\ CredIdle /\ CategoryIdle
    /\ ProbeIdle /\ RepeatIdle /\ InstagramIdle

\* session_id = manager.create_session(user_id)
CreateSession ==
    /\ pc = "sessions"
    /\ ids_issued < MaxSessions
    /\ \E user_arg \in UserArgs :
          LET r == create_session(sessions, conversations, user_arg,
                                  ids_issued + 1, wall_clock)
          IN /\ sessions' = r.sessions
             /\ conversations' = r.conversations
             /\ sm_call' = [op |-> "create_session", session_id |-> r.value,
                            outcome |-> r.outcome, value |-> r.value]
    /\ ids_issued' = ids_issued + 1
    /\ UNCHANGED <<session_timeout_hours, wall_clock, msgs_issued, instagramVars>>
    /\ UNCHANGED <<articleVars, batchVars, credVars, categoryVars, probeVars, repeatVars>>
    /\ UNCHANGED scrapeVars

\* manager.is_session_valid(session_id)
IsSessionValid ==
    /\ pc = "sessions"
    /\ \E session_id \in SessionIds :
          LET r == is_session_valid(sessions, session_id, wall_clock,
                                    session_timeout_hours)
          IN /\ sessions' = r.sessions
             /\ sm_call' = [op |-> "is_session_valid", session_id |-> session_id,
                            outcome |-> "returned", value |-> r.value]
    /\ UNCHANGED <<conversations, session_timeout_hours, wall_clock, ids_issued,
                   msgs_issued, instagramVars>>
    /\ UNCHANGED <<articleVars, batchVars, credVars, categoryVars, probeVars, repeatVars>>
    /\ UNCHANGED scrapeVars

\* manager.add_message(session_id, user_id, message, response)
AddMessage ==
    /\ pc = "sessions"
    /\ \E session_id \in SessionIds :
          LET r == add_message(sessions, conversations, session_id, "alice",
                               msgs_issued + 1, wall_clock, session_timeout_hours)
          IN /\ r.outcome = "returned" => msgs_issued < MaxMessages
             /\ sessions' = r.sessions
             /\ conversations' = r.conversations
             /\ msgs_issued' = IF r.outcome = "returned" THEN msgs_issued + 1
                               ELSE msgs_issued
             /\ sm_call' = [op |-> "add_message", session_id |-> session_id,
                            outcome |-> r.outcome, value |-> r.value]
    /\ UNCHANGED <<session_timeout_hours, wall_clock, ids_issued, instagramVars>>
    /\ UNCHANGED <<articleVars, batchVars, credVars, categoryVars, probeVars, repeatVars>>
    /\ UNCHANGED scrapeVars

\* manager.get_conversation_history(session_id, limit)
GetConversationHistory ==
    /\ pc = "sessions"
    /\ \E session_id \in SessionIds : \E limit \in Limits :
          sm_call' = [op |-> "get_conversation_history", session_id |-> session_id,
                      limit |-> limit, outcome |-> "returned",
                      value |-> get_conversation_history(conversations, session_id,
                                                         limit)]
    /\ UNCHANGED <<sessions, conversations, session_timeout_hours, wall_clock,
                   ids_issued, msgs_issued, instagramVars>>
    /\ UNCHANGED <<articleVars, batchVars, credVars, categoryVars, probeVars, repeatVars>>
    /\ UNCHANGED scrapeVars

\* manager.end_session(session_id)
EndSession ==
    /\ pc = "sessions"
    /\ \E session_id \in SessionIds :
          LET r == end_session(sessions, session_id)
          IN /\ sessions' = r.sessions
             /\ sm_call' = [op |-> "end_session", session_id |-> session_id,
                            outcome |-> "returned", value |-> r.value]
    /\ UNCHANGED <<conversations, session_timeout_hours, wall_clock, ids_issued,
                   msgs_issued, instagramVars>>
    /\ UNCHANGED <<articleVars, batchVars, credVars, categoryVars, probeVars, repeatVars>>
    /\ UNCHANGED scrapeVars

\* manager.cleanup_expired_sessions()
CleanupExpiredSessions ==
    /\ pc = "sessions"
    /\ LET r == cleanup_expired_sessions(sessions, conversations, wall_clock,
                                         session_timeout_hours)
       IN /\ sessions' = r.sessions
          /\ conversations' = r.conversations
          /\ sm_call' = [op |-> "cleanup_expired_sessions", outcome |-> "returned",
                         value |-> r.value]
    /\ UNCHANGED <<session_timeout_hours, wall_clock, ids_issued, msgs_issued,
                   instagramVars>>
    /\ UNCHANGED <<articleVars, batchVars, credVars, categoryVars, probeVars, repeatVars>>
    /\ UNCHANGED scrapeVars

\* an hour passes between two calls
HourPasses ==
    /\ pc = "sessions"
    /\ wall_clock < MaxNow
    /\ wall_clock' = wall_clock + 1
    /\ UNCHANGED <<sessions, conversations, session_timeout_hours, ids_issued,
                   msgs_issued, sm_call, instagramVars>>
    /\ UNCHANGED <<articleVars, batchVars, credVars, categoryVars, probeVars, repeatVars>>
    /\ UNCHANGED scrapeVars

SessionNext ==
    \/ CreateSession
    \/ IsSessionValid
    \/ AddMessage
    \/ GetConversationHistory
    \/ EndSession
    \/ CleanupExpiredSessions
    \/ HourPasses

SpecSession == SessionInit /\ [][SessionNext]_vars

(***************************************************************************)
(* InstagramManager (src/managers/instagram_manager.py).  The database and *)
(* Instagram answer each call in one of the ways below; which way is the   *)
(* environment's choice.                                                   *)
(***************************************************************************)
Usernames == {"alice", "bob"}

\* follower_count, following_count and media_count of an account
StatsPool ==
    { [follower_count |-> 0, following_count |-> 0, media_count |-> 0],
      [follower_count |-> 10, following_count |-> 20, media_count |-> 3] }
ZeroStats == [follower_count |-> 0, following_count |-> 0, media_count |-> 0]

\* session_data of a stored account: None, JSON of client settings, or a
\* string that is not JSON
SessionData == {"None", "settings_json", "not_json"}

\* the InstagramAccount documents the collection may hold
Documents == [session_data : SessionData, stats : StatsPool]
NoDocument == [session_data |-> "None", stats |-> ZeroStats]

\* await InstagramAccount.find_one(InstagramAccount.username == username)
find_one(docs, username) ==
    IF username \in DOMAIN docs
    THEN [found |-> TRUE, doc |-> docs[username]]
    ELSE [found |-> FALSE, doc |-> NoDocument]

\* how the environment answers during one call: the database works, or
\* find_one raises, or save / delete raises; Instagram accepts the session or
\* the login, or raises LoginRequired, or raises something else; user_info
\* reports the counts fresh
Answers ==
    [db : {"ok", "find_raises", "write_raises"},
     instagram : {"ok", "LoginRequired", "error"},
     fresh : StatsPool]

\* InstagramManager.add_account; when user_info raises after the login the
\* counts stored are 0, which is one of the values of env.fresh
add_account(cached, docs, username, env) ==
    IF env.db = "find_raises"
    THEN [clients |-> cached, accounts |-> docs,
          value |-> <<FALSE, "Database error">>]
    ELSE IF find_one(docs, username).found
    THEN [clients |-> cached, accounts |-> docs,
          value |-> <<FALSE, "Account already exists">>]
    ELSE IF env.instagram = "LoginRequired"
    THEN [clients |-> cached, accounts |-> docs,
          value |-> <<FALSE, "Invalid credentials or login blocked">>]
    ELSE IF env.instagram = "error"
    THEN [clients |-> cached, accounts |-> docs,
          value |-> <<FALSE, "Login failed">>]
    ELSE IF env.db = "write_raises"
    THEN [clients |-> cached, accounts |-> docs,
          value |-> <<FALSE, "Database error">>]
    ELSE [clients |-> cached \cup {username},
          accounts |-> DictSet(docs, username,
                               [session_data |-> "settings_json",
                                stats |-> env.fresh]),
          value |-> <<TRUE, "Account added successfully">>]

\* InstagramManager.load_account
load_account(cached, docs, username, env) ==
    LET account == find_one(docs, username)
    IN IF env.db = "find_raises"
       THEN [clients |-> cached, value |-> <<FALSE, "Database error">>]
       ELSE IF ~account.found
       THEN [clients |-> cached, value |-> <<FALSE, "Account not found">>]
       ELSE IF account.doc.session_data = "None"
       THEN [clients |-> cached, value |-> <<FALSE, "No session data found">>]
       ELSE IF account.doc.session_data = "not_json"
       THEN [clients |-> cached, value |-> <<FALSE, "Invalid session data">>]
       ELSE IF env.instagram = "LoginRequired"
       THEN [clients |-> cached,
             value |-> <<FALSE, "Session expired - please re-login">>]
       ELSE IF env.instagram = "error"
       THEN [clients |-> cached, value |-> <<FALSE, "Session restore failed">>]
       ELSE [clients |-> cached \cup {username},
             value |-> <<TRUE, "Session loaded successfully">>]

\* InstagramManager.upload_video: the first element of the value is whether
\* a media id came back
upload_video(cached, docs, username, env) ==
    LET loaded == IF username \notin cached
                  THEN load_account(cached, docs, username, env)
                  ELSE [clients |-> cached, value |-> <<TRUE, "cached">>]
    IN IF ~loaded.value[1]
       THEN [clients |-> loaded.clients, value |-> <<FALSE, loaded.value[2]>>]
       ELSE IF env.instagram = "LoginRequired"
       THEN [clients |-> loaded.clients,
             value |-> <<FALSE, "Session expired - please re-login">>]
       ELSE IF env.instagram = "error"
       THEN [clients |-> loaded.clients, value |-> <<FALSE, "Upload failed">>]
       ELSE [clients |-> loaded.clients,
             value |-> <<TRUE, "Video uploaded successfully">>]

\* InstagramManager.update_account_stats.  With no cached client the method
\* calls self.load_account(username) without await: that builds a coroutine
\* object, which is never run and counts as true, so "not ..." is false and
\* nothing is loaded; self.clients[username] then raises KeyError, which the
\* except clause turns into False.
update_account_stats(cached, docs, username, env) ==
    LET account == find_one(docs, username)
    IN IF username \notin cached
       THEN [clients |-> cached, accounts |-> docs, value |-> FALSE]
       ELSE IF env.instagram # "ok" \/ env.db # "ok" \/ ~account.found
       THEN [clients |-> cached, accounts |-> docs, value |-> FALSE]
       ELSE [clients |-> cached,
             accounts |-> DictSet(docs, username,
                                  [session_data |-> "settings_json",
                                   stats |-> env.fresh]),
             value |-> TRUE]

\* InstagramManager.remove_account
remove_account(cached, docs, username, env) ==
    IF env.db # "ok" \/ ~find_one(docs, username).found
    THEN [clients |-> cached, accounts |-> docs, value |-> FALSE]
    ELSE [clients |-> cached \ {username},
          accounts |-> DictDel(docs, {username}),
          value |-> TRUE]

\* a manager just constructed, over a collection with some documents
InstagramInit ==
    /\ clients = {}
    /\ accounts \in UNION {[held -> Documents] : held \in SUBSET Usernames}
    /\ ig_call = NoCall
    /\ pc = "instagram"
    /\ ScrapeIdle /\ ArticleIdle /\ BatchIdle /\ CredIdle /\ CategoryIdle
    /\ ProbeIdle /\ RepeatIdle /\ SessionIdle

\* what is kept of a call: the method, its argument, whether a client was
\* cached and what was stored when it began, the environment's answers,
\* and the value returned
CallRecord(op, username, env, value) ==
    [op |-> op, username |-> username, cached |-> username \in clients,
     stored |-> find_one(accounts, username), env |-> env, value |-> value]

\* await manager.add_account(username, password)
AddAccount ==
    /\ pc = "instagram"
    /\ \E username \in Usernames : \E env \in Answers :
          LET r == add_account(clients, accounts, username, env)
          IN /\ clients' = r.clients
             /\ accounts' = r.accounts
             /\ ig_call' = CallRecord("add_account", username, env, r.value)
    /\ UNCHANGED <<sessionVars, articleVars, batchVars, credVars, categoryVars>>
    /\ UNCHANGED <<scrapeVars, probeVars, repeatVars>>

\* await manager.load_account(username)
LoadAccount ==
    /\ pc = "instagram"
    /\ \E username \in Usernames : \E env \in Answers :
          LET r == load_account(clients, accounts, username, env)
          IN /\ clients' = r.clients
             /\ ig_call' = CallRecord("load_account", username, env, r.value)
    /\ UNCHANGED <<accounts, sessionVars, articleVars, batchVars, credVars, categoryVars>>
    /\ UNCHANGED <<scrapeVars, probeVars, repeatVars>>

\* await manager.upload_video(username, video_path, caption)
UploadVideo ==
    /\ pc = "instagram"
    /\ \E username \in Usernames : \E env \in Answers :
          LET r == upload_video(clients, accounts, username, env)
          IN /\ clients' = r.clients
             /\ ig_call' = CallRecord("upload_video", username, env, r.value)
    /\ UNCHANGED <<accounts, sessionVars, articleVars, batchVars, credVars, categoryVars>>
    /\ UNCHANGED <<scrapeVars, probeVars, repeatVars>>

\* await manager.update_account_stats(username)
UpdateAccountStats ==
    /\ pc = "instagram"
    /\ \E username \in Usernames : \E env \in Answers :
          LET r == update_account_stats(clients, accounts, username, env)
          IN /\ clients' = r.clients
             /\ accounts' = r.accounts
             /\ ig_call' = CallRecord("update_account_stats", username, env, r.value)
    /\ UNCHANGED <<sessionVars, articleVars, batchVars, credVars, categoryVars>>
    /\ UNCHANGED <<scrapeVars, probeVars, repeatVars>>

\* await manager.remove_account(username)
RemoveAccount ==
    /\ pc = "instagram"
    /\ \E username \in Usernames : \E env \in Answers :
          LET r == remove_account(clients, accounts, username, env)
          IN /\ clients' = r.clients
             /\ accounts' = r.accounts
             /\ ig_call' = CallRecord("remove_account", username, env, r.value)
    /\ UNCHANGED <<sessionVars, articleVars, batchVars, credVars, categoryVars>>
    /\ UNCHANGED <<scrapeVars, probeVars, repeatVars>>

InstagramNext ==
    \/ AddAccount
    \/ LoadAccount
    \/ UploadVideo
    \/ UpdateAccountStats
    \/ RemoveAccount

SpecInstagram == InstagramInit /\ [][InstagramNext]_vars

(***************************************************************************)
(* Claims about the aggregator.                                            *)
(***************************************************************************)
\* str.upper on the words of the title pool
UpperWord(w) ==
    CASE w \in {"Budget", "budget", "BUDGET"} -> "BUDGET"
      [] w \in {"Vote", "vote", "VOTE"} -> "VOTE"
      [] w \in {"Tax", "tax"} -> "TAX"
      [] w \in {"Bill", "bill"} -> "BILL"
      [] OTHER -> w

\* two title strings are identical up to the case of their letters
SameIgnoringCase(a, b) ==
    /\ Len(a) = Len(b)
    /\ \A i \in DOMAIN a : UpperWord(a[i]) = UpperWord(b[i])

\* the concatenation NewsAPI articles, GNews articles, MediaStack articles
AllFetched == fetched["NewsAPI"] \o fetched["GNews"] \o fetched["MediaStack"]

Returned == pc = "done" /\ result.outcome = "returned"

FailureStatuses == {"no_key", "timeout", "429", "500", "bad_json"}
Failed(api) == status[api] \in FailureStatuses

\* some fetched article carries a null title or a null publishedAt
NullFieldFetched ==
    \E i \in DOMAIN AllFetched :
        AllFetched[i].title.py # "str" \/ AllFetched[i].publishedAt.py # "str"

\* C7: a source whose key is missing, whose request raised, or that
\* answered 429, another non-success code or an undecodable body
\* contributes the empty list; the failure is never what aborts the
\* aggregation, and the returned list still represents every article the
\* other sources delivered (one article per title, up to case).
C7_FailedSourceIsolated ==
    \A api \in ApiSet :
      Failed(api) =>
        /\ fetched[api] = <<>>
        /\ pc = "raised" => NullFieldFetched
        /\ Returned =>
             /\ \A b \in ApiSet \ {api} : \A i \in DOMAIN fetched[b] :
                  \E k \in DOMAIN result.value.articles :
                     /\ SameIgnoringCase(result.value.articles[k].title.v,
                                         fetched[b][i].title.v)
                     /\ result.value.articles[k] \in
                          {AllFetched[m] : m \in DOMAIN AllFetched}
             /\ (AllFetched # <<>>) => result.value.total_articles >= 1

\* NewsAPI failed, the two other sources delivered one article each, and
\* both articles are returned
C7_Witness ==
    /\ Returned
    /\ status["NewsAPI"] = "429"
    /\ Len(fetched["GNews"]) = 1 /\ Len(fetched["MediaStack"]) = 1
    /\ result.value.total_articles = 2

\* C8: whatever the three fetches give, scrape_political_news returns a
\* record: no exception leaves it.
C8_NoExceptionPropagates == pc # "raised"

\* a decoded element the fetch method can turn into an article
WellFormed(api, e) ==
    /\ e.isdict
    /\ api # "MediaStack" => e.source.py \in {"dict", "missing"}

\* C9: of a successful response, every well-formed element is returned by
\* the fetch method; only the malformed elements are skipped.
C9_MalformedEntrySkipped ==
    \A api \in ApiSet :
      status[api] = "200" =>
        Len(fetched[api]) =
          Cardinality({i \in DOMAIN raw[api] : WellFormed(api, raw[api][i])})

(***************************************************************************)
(* Claims about the analyzer.                                              *)
(***************************************************************************)
\* analyze_article_bias has returned
ArticleAnalyzed == pc = "analyzed"

\* x is a whole number of hundredths
IsHundredth(x) == (100 * x.n) % x.d = 0

\* max(0, base - penalty) of the analysis at hand, before any rounding, from
\* the parts the analysis reports
ExactScore ==
    LET L == Len(analysis.bias_indicators.loaded_language)
        O == Len(analysis.bias_indicators.opinion_indicators)
        F == Len(analysis.bias_indicators.factual_claims)
        base == analysis.credibility_score.score
        penalty ==
            RAdd(RAdd(RMul(Rat(3, 10), analysis.emotional_score),
                      RMul(Rat(4, 10), analysis.partisan_score)),
                 RAdd(RMin(Rat(5 * L, 100), Rat(2, 10)),
                      RMin(Rat(2 * O, 10 * Max(F, 1)), Rat(3, 10))))
    IN IF RLess(base, penalty) THEN Rat(0, 1) ELSE RSub(base, penalty)

\* the unfloored difference base - penalty is negative
PenaltyExceedsBase ==
    LET L == Len(analysis.bias_indicators.loaded_language)
        O == Len(analysis.bias_indicators.opinion_indicators)
        F == Len(analysis.bias_indicators.factual_claims)
    IN RLess(analysis.credibility_score.score,
             RAdd(RAdd(RMul(Rat(3, 10), analysis.emotional_score),
                       RMul(Rat(4, 10), analysis.partisan_score)),
                  RAdd(RMin(Rat(5 * L, 100), Rat(2, 10)),
                       RMin(Rat(2 * O, 10 * Max(F, 1)), Rat(3, 10)))))

\* C1: the overall_bias_score of every analysed article lies in [0.0, 1.0]
\* and is a multiple of 0.01.
C1_ScoreInUnitInterval ==
    ArticleAnalyzed =>
      /\ RLeq(Rat(0, 1), analysis.overall_bias_score)
      /\ RLeq(analysis.overall_bias_score, Rat(1, 1))
      /\ IsHundredth(analysis.overall_bias_score)

\* the penalties of an article exceed the credibility of its source, and
\* the score is 0.0
C1_Witness ==
    /\ ArticleAnalyzed
    /\ PenaltyExceedsBase
    /\ analysis.overall_bias_score = Rat(0, 1)

\* C2: the overall_bias_score of every analysed article is max(0, base -
\* penalty) rounded to two decimals: a multiple of 0.01 at most 0.005 away
\* from max(0, base - penalty), where base is the credibility score of the
\* source and penalty = 0.3*emotional_score + 0.4*partisan_score +
\* min(0.05*L, 0.2) + min(0.2*(O / max(F, 1)), 0.3).
C2_ScoreFormula ==
    ArticleAnalyzed =>
      LET s == analysis.overall_bias_score
          diff == RSub(s, ExactScore)
      IN /\ IsHundredth(s)
         /\ RLeq(Rat(-1, 200), diff)
         /\ RLeq(diff, Rat(1, 200))

\* an article with an emotional term and no partisan one, two opinion cues
\* against three factual ones: base - penalty is not a whole number of
\* hundredths, and the score is the nearest one
C2_Witness ==
    /\ ArticleAnalyzed
    /\ analysis.emotional_score = Rat(1, 1)
    /\ analysis.partisan_score = Rat(0, 1)
    /\ Len(analysis.bias_indicators.opinion_indicators) = 2
    /\ Len(analysis.bias_indicators.factual_claims) = 3
    /\ ~IsHundredth(ExactScore)
    /\ RLess(Rat(0, 1), ExactScore)
    /\ IsHundredth(analysis.overall_bias_score)

\* credibility_level: the lower-cased source name has an entry of the
\* tier as a substring
HasEntryOf(credibility_level, source) ==
    \E k \in DOMAIN CREDIBLE_SOURCES[credibility_level] :
        Contains(LowerName(source), CREDIBLE_SOURCES[credibility_level][k])

\* the names the low tier lists
LowTierNames ==
    {CREDIBLE_SOURCES.low[k] : k \in DOMAIN CREDIBLE_SOURCES.low}

\* C4: the credibility of a source name is the first tier, in the order
\* high, medium, low, one of whose entries is a substring of the
\* lower-cased name, with score 0.9, 0.6, 0.3; without such an entry it is
\* level "unknown" with score 0.5.  So "Reuters" scores 0.9, "Bloomberg"
\* 0.6 and every name of the low tier 0.3.
C4_CredibilityTiers ==
    pc = "assessed" =>
      /\ HasEntryOf("high", srcname) =>
           cred.level = "high" /\ cred.score = Rat(9, 10)
      /\ (~HasEntryOf("high", srcname) /\ HasEntryOf("medium", srcname)) =>
           cred.level = "medium" /\ cred.score = Rat(6, 10)
      /\ (~HasEntryOf("high", srcname) /\ ~HasEntryOf("medium", srcname)
            /\ HasEntryOf("low", srcname)) =>
           cred.level = "low" /\ cred.score = Rat(3, 10)
      /\ (~HasEntryOf("high", srcname) /\ ~HasEntryOf("medium", srcname)
            /\ ~HasEntryOf("low", srcname)) =>
           cred.level = "unknown" /\ cred.score = Rat(5, 10)
      /\ srcname = Reuters => cred.score = Rat(9, 10)
      /\ srcname = Bloomberg => cred.score = Rat(6, 10)
      /\ srcname \in LowTierNames => cred.score = Rat(3, 10)

\* a name with an entry of the low tier and one of the high tier in it is
\* assessed high
C4_Witness ==
    /\ pc = "assessed"
    /\ HasEntryOf("low", srcname)
    /\ HasEntryOf("high", srcname)
    /\ cred.level = "high"
    /\ cred.score = Rat(9, 10)

\* the label the thresholds 0.8, 0.6, 0.4 give a score
LabelByThreshold(score) ==
    CASE RLeq(Rat(8, 10), score) -> LowBiasLabel
      [] RLeq(Rat(6, 10), score) /\ RLess(score, Rat(8, 10)) -> ModerateBiasLabel
      [] RLeq(Rat(4, 10), score) /\ RLess(score, Rat(6, 10)) -> HighBiasLabel
      [] RLess(score, Rat(4, 10)) -> VeryHighBiasLabel

\* C5: _categorize_bias gives every score of [0, 1] the label of its
\* threshold band (>= 0.8 low, >= 0.6 moderate, >= 0.4 high, below 0.4
\* very high), and the bias_category of an analysed article is that label
\* for its overall_bias_score.
C5_CategoryByThreshold ==
    /\ pc = "categorized" => given_label = LabelByThreshold(given_score)
    /\ ArticleAnalyzed =>
          analysis.bias_category = LabelByThreshold(analysis.overall_bias_score)

\* an article that scores exactly 0.8 is categorised low bias
C5_Witness ==
    /\ ArticleAnalyzed
    /\ analysis.overall_bias_score = Rat(8, 10)
    /\ analysis.bias_category = LowBiasLabel

\* analyze_news_bias has returned
BatchAnalyzed == pc = "analyzed"

\* the category label a bucket of bias_distribution is named after
LabelOfBucket(b) ==
    CASE b = "Low Bias" -> LowBiasLabel
      [] b = "Moderate Bias" -> ModerateBiasLabel
      [] b = "High Bias" -> HighBiasLabel
      [] b = "Very High Bias" -> VeryHighBiasLabel

\* the number of analysed articles of the report with the category label
Categorised(label) ==
    Cardinality({i \in DOMAIN report.individual_analyses :
                   report.individual_analyses[i].bias_category = label})

\* C6: each bucket of bias_distribution equals the number of analysed
\* articles whose bias_category is the label of the bucket.
C6_DistributionCountsCategories ==
    BatchAnalyzed =>
      \A b \in BucketNames :
         report.bias_distribution[b] = Categorised(LabelOfBucket(b))

MajorityMessage == "Majority of articles show bias - verify information"

\* the message is among the overall recommendations of the report
MajorityReported ==
    \E i \in DOMAIN report.overall_recommendations :
        report.overall_recommendations[i] = MajorityMessage

\* the articles categorised high bias or very high bias
HighOrVeryHigh == Categorised(HighBiasLabel) + Categorised(VeryHighBiasLabel)

\* C10: the majority message is among overall_recommendations exactly when
\* the articles categorised high bias and very high bias together are more
\* than 50% of the batch.
C10_MajorityMoreThanHalf ==
    BatchAnalyzed =>
      (MajorityReported <=> 2 * HighOrVeryHigh > report.total_articles_analyzed)

\* C10 as stated: the majority message is among overall_recommendations
\* exactly when the articles categorised high bias and very high bias
\* together are at least 50% of the batch.
C10_MajorityAtLeastHalf ==
    BatchAnalyzed =>
      (MajorityReported <=> 2 * HighOrVeryHigh >= report.total_articles_analyzed)

\* exactly half of a batch of two is categorised high or very high bias,
\* and the message is not given
C10_Witness ==
    /\ BatchAnalyzed
    /\ report.total_articles_analyzed = 2
    /\ HighOrVeryHigh = 1
    /\ ~MajorityReported

CoverageMessage == "Overall coverage shows bias - seek diverse sources"
CredibleMessage == "Most articles appear credible and balanced"

\* the message is among the overall recommendations of the report
OverallRecommends(message) ==
    \E i \in DOMAIN report.overall_recommendations :
        report.overall_recommendations[i] = message

\* every article of the batch scored 0.8 or more
AllScoresHigh ==
    \A i \in DOMAIN report.individual_analyses :
        RLeq(Rat(8, 10), report.individual_analyses[i].overall_bias_score)

\* C11: for a batch every article of which scores 0.8 or more, the overall
\* recommendations contain the "most articles appear credible" message and
\* do not contain the "overall coverage shows bias" message.
C11_AllCredibleBatch ==
    (BatchAnalyzed /\ AllScoresHigh) =>
      /\ OverallRecommends(CredibleMessage)
      /\ ~OverallRecommends(CoverageMessage)

\* C12: the report of the empty batch has total_articles_analyzed 0,
\* average_bias_score 0.0, every bucket of bias_distribution 0, and empty
\* overall_recommendations, individual_analyses, most_credible_sources,
\* least_credible_sources and common_bias_indicators.
C12_EmptyBatchReport ==
    (BatchAnalyzed /\ articles = <<>>) =>
      /\ report.total_articles_analyzed = 0
      /\ report.average_bias_score = Rat(0, 1)
      /\ \A b \in BucketNames : report.bias_distribution[b] = 0
      /\ report.overall_recommendations = <<>>
      /\ report.individual_analyses = <<>>
      /\ report.analysis_summary.most_credible_sources = <<>>
      /\ report.analysis_summary.least_credible_sources = <<>>
      /\ report.analysis_summary.common_bias_indicators = <<>>

BalancedMessage == "Article appears balanced and credible"

\* the messages of the rules that fire on the analysis at hand, rule by
\* rule in the order of the claim
RuleMessages ==
    <<  IF RLess(analysis.overall_bias_score, Rat(4, 10))
        THEN <<"Cross-reference with multiple sources",
               "Verify factual claims independently",
               "Consider alternative viewpoints">>
        ELSE <<>>,
        IF Len(analysis.bias_indicators.emotional_terms) > 3
        THEN <<"Article contains emotional language - focus on facts">>
        ELSE <<>>,
        IF Len(analysis.bias_indicators.partisan_terms) > 2
        THEN <<"Article shows partisan bias - seek balanced coverage">>
        ELSE <<>>,
        IF analysis.credibility_score.level = "unknown"
        THEN <<"Source credibility unknown - verify independently">>
        ELSE <<>>,
        IF Len(analysis.bias_indicators.opinion_indicators)
             > Len(analysis.bias_indicators.factual_claims)
        THEN <<"Article contains more opinion than fact">>
        ELSE <<>> >>

\* no rule fired on the analysis at hand
NoRuleFired == \A r \in DOMAIN RuleMessages : RuleMessages[r] = <<>>

\* C13: the recommendations of an analysed article are the messages of the
\* five rules that fired, in rule order (score below 0.4, more than 3
\* emotional terms, more than 2 partisan terms, unknown source, more
\* opinion cues than factual cues); the list is never empty, and the
\* "balanced and credible" message is in it exactly when no rule fired,
\* then as its only element.
C13_RecommendationRules ==
    ArticleAnalyzed =>
      LET recs == analysis.recommendations
          balanced == \E i \in DOMAIN recs : recs[i] = BalancedMessage
      IN /\ recs # <<>>
         /\ balanced <=> NoRuleFired
         /\ balanced => recs = <<BalancedMessage>>
         /\ ~NoRuleFired => recs = Flatten(RuleMessages)

\* all five rules fired on one article: seven messages
C13_Witness ==
    /\ ArticleAnalyzed
    /\ \A r \in DOMAIN RuleMessages : RuleMessages[r] # <<>>
    /\ Len(analysis.recommendations) = 7

\* the common_bias_indicators of the report
CommonIndicators == report.analysis_summary.common_bias_indicators

\* every (indicator category, term) pair of the indicator lists of the
\* batch, in the order a scan of the batch meets them
BatchOccurrences ==
    Flatten([i \in DOMAIN report.individual_analyses |->
               IndicatorKeys(report.individual_analyses[i])])

\* the number of times the pair occurs in the scan
OccurrenceCount(scan, key) ==
    Cardinality({o \in DOMAIN scan : scan[o] = key})

\* where the scan meets the pair first
FirstAppearance(scan, key) ==
    CHOOSE o \in DOMAIN scan :
        /\ scan[o] = key
        /\ \A p \in 1..(o - 1) : scan[p] # key

\* the pairs of the batch that common_bias_indicators leaves out
OmittedKeys ==
    {BatchOccurrences[o] : o \in DOMAIN BatchOccurrences}
        \ {CommonIndicators[e].key : e \in DOMAIN CommonIndicators}

\* C14: common_bias_indicators has at most 10 entries, one per key; each
\* key is an (indicator category, term) pair with the number of times the
\* pair occurs in the indicator lists of the batch; the entries are in
\* descending count order, equal counts in order of first appearance; and
\* no omitted pair has a greater count than an included one.
C14_CommonIndicators ==
    BatchAnalyzed =>
      LET scan == BatchOccurrences
          common == CommonIndicators
          omitted == OmittedKeys
      IN /\ Len(common) <= 10
         /\ \A e \in DOMAIN common : \A f \in DOMAIN common :
               e < f =>
                 /\ common[e].key # common[f].key
                 /\ common[e].count >= common[f].count
                 /\ common[e].count = common[f].count =>
                       FirstAppearance(scan, common[e].key)
                           < FirstAppearance(scan, common[f].key)
         /\ \A e \in DOMAIN common :
               /\ common[e].count >= 1
               /\ common[e].count = OccurrenceCount(scan, common[e].key)
         /\ \A o \in omitted : \A e \in DOMAIN common :
               OccurrenceCount(scan, o) <= common[e].count

\* a batch with more than ten pairs, some met twice and met after pairs
\* met once: ten entries are kept, the first with a greater count than the
\* last, and a pair is left out
C14_Witness ==
    /\ BatchAnalyzed
    /\ Len(CommonIndicators) = 10
    /\ OmittedKeys # {}
    /\ CommonIndicators[1].count > CommonIndicators[10].count
    /\ FirstAppearance(BatchOccurrences, CommonIndicators[1].key)
          > FirstAppearance(BatchOccurrences, CommonIndicators[10].key)

(***************************************************************************)
(* Further claims about the aggregator.                                    *)
(***************************************************************************)
\* where the article stands in the concatenation NewsAPI, GNews, MediaStack
PlaceFetched(a) ==
    CHOOSE m \in DOMAIN AllFetched :
        /\ AllFetched[m] = a
        /\ \A n \in 1..(m - 1) : AllFetched[n] # a

\* C15: the returned articles are in non-increasing order of publishedAt,
\* compared as strings, and two articles with equal publishedAt stand in
\* the order they had in the concatenation NewsAPI, GNews, MediaStack.
C15_SortedNewestFirstStable ==
    Returned =>
      \A i \in DOMAIN result.value.articles : \A j \in DOMAIN result.value.articles :
        i < j =>
          LET a == result.value.articles[i]
              b == result.value.articles[j]
          IN /\ ~StrLess(a.publishedAt.v, b.publishedAt.v)
             /\ a.publishedAt.v = b.publishedAt.v =>
                   PlaceFetched(a) < PlaceFetched(b)

\* the older of two fetched articles came first and is returned second
C15_Witness ==
    /\ Returned
    /\ Len(AllFetched) = 2
    /\ StrLess(AllFetched[1].publishedAt.v, AllFetched[2].publishedAt.v)
    /\ result.value.articles = <<AllFetched[2], AllFetched[1]>>

\* the api_source tags of the returned articles
ReturnedTags ==
    {result.value.articles[i].api_source : i \in DOMAIN result.value.articles}

\* C16: in every returned record total_articles is the length of the
\* articles list, and sources_used lists, each once, exactly the
\* api_source tags of the returned articles.
C16_TotalAndSourcesUsed ==
    Returned =>
      /\ result.value.total_articles = Len(result.value.articles)
      /\ \A i \in DOMAIN result.value.sources_used :
         \A j \in DOMAIN result.value.sources_used :
            i # j => result.value.sources_used[i] # result.value.sources_used[j]
      /\ {result.value.sources_used[i] : i \in DOMAIN result.value.sources_used}
            = ReturnedTags

\* GNews answered with an article, the article went as the duplicate of
\* the NewsAPI one, and GNews is not among sources_used
C16_Witness ==
    /\ Returned
    /\ status["GNews"] = "200"
    /\ Len(fetched["NewsAPI"]) = 1 /\ Len(fetched["GNews"]) = 1
    /\ result.value.total_articles = 1
    /\ result.value.sources_used = <<"NewsAPI">>

\* the places of the concatenation whose article is the first with its
\* title, up to case
FirstOccurrences ==
    {m \in DOMAIN AllFetched :
        \A n \in 1..(m - 1) :
            ~SameIgnoringCase(AllFetched[n].title.v, AllFetched[m].title.v)}

NothingPenalised ==
    /\ analysis.bias_indicators.emotional_terms = <<>>
    /\ analysis.bias_indicators.partisan_terms = <<>>
    /\ analysis.bias_indicators.loaded_language = <<>>
    /\ analysis.bias_indicators.opinion_indicators = <<>>

\* C19: an article without emotional or partisan vocabulary, loaded
\* language or opinion cues scores the credibility score of its source;
\* the article titled "X" from Reuters, description and content empty,
\* scores 0.9 and is categorised "Low Bias - Highly Credible".
C19_CleanArticleScoresBase ==
    ArticleAnalyzed =>
      /\ NothingPenalised =>
            analysis.overall_bias_score = analysis.credibility_score.score
      /\ article = PlainArticle(<<"X">>, Reuters) =>
            /\ analysis.overall_bias_score = Rat(9, 10)
            /\ analysis.bias_category = LowBiasLabel

\* an article with factual cues and nothing penalised, from a source of
\* the medium tier, scores 0.6
C19_Witness ==
    /\ ArticleAnalyzed
    /\ NothingPenalised
    /\ Len(analysis.bias_indicators.factual_claims) = 3
    /\ analysis.credibility_score.level = "medium"
    /\ analysis.overall_bias_score = Rat(6, 10)

\* the text the analyzer builds from an article: title, description and
\* content, lower-cased and joined
BlobOf(a) == LowerText(a.title) \o LowerText(a.description) \o LowerText(a.content)

\* how many entries of a vocabulary occur in a text
EntriesPresent(terms, text) ==
    Cardinality({i \in DOMAIN terms : Contains(text, terms[i])})

InUnitInterval(x) == RLeq(Rat(0, 1), x) /\ RLeq(x, Rat(1, 1))

\* the score x of a text is the one stated for a vocabulary and its factor
LevelAsStated(x, terms, text, factor) ==
    LET k == EntriesPresent(terms, text)
        w == WordCount(text)
    IN /\ InUnitInterval(x)
       /\ IF w = 0 \/ k = 0
          THEN x = Rat(0, 1)
          ELSE /\ RLess(Rat(0, 1), x)
               /\ x = RMin(Rat(factor * k, w), Rat(1, 1))

ProbedEmotional == pc = "probe" /\ emotional_level # NoLevel
ProbedPartisan == pc = "probe" /\ partisan_level # NoLevel

SubjectRuns == {i \in DOMAIN runs : runs[i].input = subject}

\* every analysis of the subject returned the same record
RunsAgree == \A i, j \in SubjectRuns : runs[i].result = runs[j].result

\* a call leaves the article dict and the class attributes as they were
CallLeavesInputs == subject' = subject /\ class_attrs' = class_attrs

ResultKeys == DOMAIN result.value

\* C21: the record returned by scrape_political_news(request, hours=h) has
\* topic equal to request and a field time_range_hours equal to h; when the
\* three sources return no articles it also has total_articles = 0, lists
\* under articles and sources_used, and a scraped_at field.
C21_EchoesInputs ==
    Returned =>
       /\ result.value.topic = request
       /\ "time_range_hours" \in ResultKeys
       /\ result.value.time_range_hours = hours
       /\ AllFetched = <<>> =>
             /\ result.value.total_articles = 0
             /\ result.value.articles = <<>>
             /\ result.value.sources_used = <<>>
             /\ "scraped_at" \in ResultKeys

(***************************************************************************)
(* Claims about the vocabularies and the tiers.                            *)
(***************************************************************************)
\* the vocabularies and the indicator key each one reports under
VocabularyKeys ==
    [left_wing |-> "left_wing_terms", right_wing |-> "right_wing_terms",
     emotional |-> "emotional_terms", partisan |-> "partisan_terms"]

\* a field of the article holds the entry as the vocabulary writes it
WrittenIn(a, entry) ==
    \/ Contains(a.title, entry)
    \/ Contains(a.description, entry)
    \/ Contains(a.content, entry)

\* the entry is listed under the indicator key
ListedUnder(key, entry) ==
    \E i \in DOMAIN analysis.bias_indicators[key] :
        analysis.bias_indicators[key][i] = entry

\* C22: whenever the title, the description or the content of an article
\* contains an entry of one of the four vocabularies as the vocabulary
\* writes it, the bias_indicators of analyze_article_bias list that entry
\* under the matching indicator key.
C22_EveryEntryDetectable ==
    ArticleAnalyzed =>
       \A v \in DOMAIN VocabularyKeys : \A i \in DOMAIN BIASED_TERMS[v] :
          WrittenIn(article, BIASED_TERMS[v][i]) =>
             ListedUnder(VocabularyKeys[v], BIASED_TERMS[v][i])

\* article a was published strictly before article b, both timestamps
\* being strings
PublishedBefore(a, b) ==
    /\ a.publishedAt.py = "str" /\ b.publishedAt.py = "str"
    /\ StrLess(a.publishedAt.v, b.publishedAt.v)

\* C23: when several fetched articles share a title, up to case, the one
\* that is returned has the greatest publishedAt among them.
C23_KeepsMostRecent ==
    Returned =>
       \A k \in DOMAIN result.value.articles : \A m \in DOMAIN AllFetched :
          SameIgnoringCase(result.value.articles[k].title.v, AllFetched[m].title.v)
             => ~PublishedBefore(result.value.articles[k], AllFetched[m])

(***************************************************************************)
(* Claims about SessionManager.                                            *)
(***************************************************************************)
\* C28: after any sequence of create_session, add_message,
\* is_session_valid, end_session and cleanup_expired_sessions calls the
\* sessions map and the conversations map have the same session ids, and
\* the message_count of every session is the number of messages stored in
\* its conversation.
C28_MapsAgree ==
    pc = "sessions" =>
       /\ DOMAIN sessions = DOMAIN conversations
       /\ \A id \in DOMAIN sessions :
             sessions[id].message_count = Len(conversations[id])

\* a session with two messages that was ended and has outlived the
\* timeout is still held, with its conversation, until the next cleanup
C28_Witness ==
    /\ pc = "sessions"
    /\ \E id \in DOMAIN sessions :
          /\ sessions[id].message_count = 2
          /\ ~sessions[id].is_active
          /\ sessions[id].last_activity < wall_clock - session_timeout_hours

AskedHistory == pc = "sessions" /\ sm_call.op = "get_conversation_history"

\* the messages stored for the session asked about, as dicts, oldest first
StoredDicts ==
    IF sm_call.session_id \in DOMAIN conversations
    THEN [i \in DOMAIN conversations[sm_call.session_id] |->
             asdict(conversations[sm_call.session_id][i])]
    ELSE <<>>

\* a list of message dicts is in chronological order
Chronological(list) ==
    \A i, j \in DOMAIN list : i < j => list[i].timestamp <= list[j].timestamp

\* the n most recent of a list, in the order of the list
MostRecent(list, n) == SubSeq(list, Max(Len(list) - n, 0) + 1, Len(list))

\* C24: get_conversation_history(session_id, limit) returns all messages of
\* the session, oldest first, when limit is None; for an integer limit
\* n >= 0 it returns at most n messages, namely the n most recent ones,
\* oldest first; for an unknown session_id it returns the empty list.
C24_HistoryLimit ==
    AskedHistory =>
       /\ Chronological(sm_call.value)
       /\ sm_call.session_id \notin DOMAIN conversations => sm_call.value = <<>>
       /\ sm_call.limit.py = "None" => sm_call.value = StoredDicts
       /\ (sm_call.limit.py = "int" /\ sm_call.limit.n >= 0) =>
             /\ Len(sm_call.value) <= sm_call.limit.n
             /\ sm_call.value = MostRecent(StoredDicts, sm_call.limit.n)

\* the session is unknown, was ended or marked expired, or has outlived the
\* timeout
NotUsable(id) ==
    \/ id \notin DOMAIN sessions
    \/ ~sessions[id].is_active
    \/ sessions[id].last_activity < wall_clock - session_timeout_hours

\* no call turns is_active of a session from False to True
StaysInactive ==
    \A id \in DOMAIN sessions :
        (~sessions[id].is_active /\ id \in DOMAIN sessions') =>
            ~sessions'[id].is_active

\* add_message on a session that is not usable raises ValueError, appends
\* nothing and leaves message_count and last_activity as they were
RejectsMessage ==
    (AddMessage /\ NotUsable(sm_call'.session_id)) =>
        LET id == sm_call'.session_id
        IN /\ sm_call'.outcome = "ValueError"
           /\ conversations' = conversations
           /\ DOMAIN sessions' = DOMAIN sessions
           /\ id \in DOMAIN sessions =>
                 /\ sessions'[id].message_count = sessions[id].message_count
                 /\ sessions'[id].last_activity = sessions[id].last_activity
                 /\ ~sessions'[id].is_active

\* C29: a session that is inactive never becomes active again: after
\* end_session, or once its last_activity is older than the timeout when it
\* is checked, every add_message on it raises ValueError without appending
\* a message or changing message_count or last_activity, and no call sets
\* is_active back to True; a session id that does not exist gets the same
\* ValueError.
C29_InactiveForGood == [][StaysInactive /\ RejectsMessage]_vars

\* a session that holds a message was ended, and the add_message after
\* that was refused
C29_Witness ==
    /\ pc = "sessions"
    /\ sm_call.op = "add_message" /\ sm_call.outcome = "ValueError"
    /\ sm_call.session_id \in DOMAIN sessions
    /\ ~sessions[sm_call.session_id].is_active
    /\ sessions[sm_call.session_id].message_count = 1
    /\ Len(conversations[sm_call.session_id]) = 1

\* C25: overall_bias_score never exceeds the credibility score of the
\* article's source, so the tier of the source caps the category: an
\* unknown source (0.5) gets 'High Bias' at best, a medium-tier source
\* (0.6) 'Moderate Bias' at best, a low-tier source (0.3) always 'Very High
\* Bias', and only a high-tier source can get 'Low Bias'.
C25_TierCapsCategory ==
    ArticleAnalyzed =>
       /\ RLeq(analysis.overall_bias_score, analysis.credibility_score.score)
       /\ analysis.credibility_score.level = "unknown" =>
             analysis.bias_category \in {HighBiasLabel, VeryHighBiasLabel}
       /\ analysis.credibility_score.level = "medium" =>
             analysis.bias_category \in
                {ModerateBiasLabel, HighBiasLabel, VeryHighBiasLabel}
       /\ analysis.credibility_score.level = "low" =>
             analysis.bias_category = VeryHighBiasLabel
       /\ analysis.bias_category = LowBiasLabel =>
             analysis.credibility_score.level = "high"

\* an article from an unknown source that loses nothing reaches 0.5 and the
\* best category open to it
C25_Witness ==
    /\ ArticleAnalyzed
    /\ analysis.credibility_score.level = "unknown"
    /\ analysis.overall_bias_score = Rat(5, 10)
    /\ analysis.bias_category = HighBiasLabel

\* C26: the report of analyze_news_bias agrees with the mean it reports:
\* overall_recommendations holds the "overall coverage shows bias" message
\* exactly when the reported average_bias_score, the mean rounded to 2
\* decimals, is below 0.6.
C26_CoverageMatchesReportedMean ==
    BatchAnalyzed =>
       (OverallRecommends(CoverageMessage)
           <=> RLess(report.average_bias_score, Rat(6, 10)))

\* C27: whenever the recommendations of analyze_article_bias are the single
\* message 'Article appears balanced and credible', the bias_category of
\* the article is 'Low Bias - Highly Credible' or 'Moderate Bias -
\* Generally Reliable'.
C27_BalancedMeansLowOrModerate ==
    (ArticleAnalyzed /\ analysis.recommendations = <<BalancedMessage>>) =>
        analysis.bias_category \in {LowBiasLabel, ModerateBiasLabel}

(***************************************************************************)
(* Claims about InstagramManager.                                          *)
(***************************************************************************)
\* the last call was update_account_stats for a username without a cached
\* client
UpdatedUncached ==
    /\ pc = "instagram"
    /\ ig_call.op = "update_account_stats"
    /\ ~ig_call.cached

\* the stored session could be loaded, the Instagram lookup and the
\* database worked
NothingFailed ==
    /\ ig_call.stored.found
    /\ ig_call.stored.doc.session_data = "settings_json"
    /\ ig_call.env.instagram = "ok"
    /\ ig_call.env.db = "ok"

\* C30: update_account_stats(username) for a username without a cached
\* client first loads the stored session, as upload_video does; when the
\* stored session is valid and the account exists it then stores the fresh
\* follower, following and media counts and returns True, and it returns
\* False only when the load, the Instagram lookup or the database update
\* fails.
C30_UpdateLoadsSession ==
    UpdatedUncached =>
       /\ NothingFailed =>
             /\ ig_call.value = TRUE
             /\ ig_call.username \in clients
             /\ accounts[ig_call.username].stats = ig_call.env.fresh
       /\ ig_call.value = FALSE => ~NothingFailed

====
